---- MODULE Spec2Model ----
(***************************************************************************)
(* run-batch-pipeline.py: the ORCA -> CORVUS -> postprocess orchestrator.  *)
(* One invocation of main() is modelled as a sequential state machine; the *)
(* file system, the PATH, the scheduler (qsub) and the prepare-orca.py     *)
(* subprocess are its environment.  Strings that the code takes apart      *)
(* (file names, run ids, paths, job ids, qsub output) are sequences of     *)
(* one-character strings.                                                  *)
(***************************************************************************)
EXTENDS Integers, Sequences, FiniteSets, TLC

(* ------------------------------ bounds -------------------------------- *)
\* most entries of the input directory
MaxFiles == 2
\* most resources (executables on PATH, files beside the script) missing
MaxMissing == 1
\* most stale generated-*-orca.script files left in a run directory
MaxStale == 2
\* the largest composition count tried on the command line
MaxCount == 5
\* the number the scheduler gives its first job
FirstJobId == 9
\* longest scheduler reply tried on _parse_qsub_job_id, in characters
MaxStdout == 4
\* most job ids in a depend_afterok list
MaxDeps == 2
\* longest file name tried on _run_id_from_xyz, in characters
MaxNameLen == 4
\* most pieces a template text is put together from
MaxPieces == 3

(* ------------------------- string literals ---------------------------- *)
S_generated == <<"g", "e", "n", "e", "r", "a", "t", "e", "d", "-">>
S_orca_script == <<"-", "o", "r", "c", "a", ".", "s", "c", "r", "i", "p", "t">>
S_corvus_wrapper_script ==
    <<"-", "c", "o", "r", "v", "u", "s", "-", "w", "r", "a", "p", "p", "e", "r",
      ".", "s", "c", "r", "i", "p", "t">>
S_generated_postprocess ==
    <<"g", "e", "n", "e", "r", "a", "t", "e", "d", "-", "p", "o", "s", "t", "p",
      "r", "o", "c", "e", "s", "s", "-">>
S_script == <<".", "s", "c", "r", "i", "p", "t">>
S_pipeline_state ==
    <<"p", "i", "p", "e", "l", "i", "n", "e", "-", "s", "t", "a", "t", "e", "-">>
S_json == <<".", "j", "s", "o", "n">>
NO_SUBMIT == <<"N", "O", "_", "S", "U", "B", "M", "I", "T">>
S_qsub == <<"q", "s", "u", "b">>
S_W == <<"-", "W">>
S_depend == <<"d", "e", "p", "e", "n", "d", "=">>
S_afterok == <<"a", "f", "t", "e", "r", "o", "k", ":">>
S_H_only == <<"-", "H", "-", "o", "n", "l", "y">>
S_xyz == <<".", "x", "y", "z">>
S_clean_xyz == <<"_", "c", "l", "e", "a", "n", ".", "x", "y", "z">>
S_comments_txt == <<"_", "c", "o", "m", "m", "e", "n", "t", "s", ".", "t", "x", "t">>
S_in == <<".", "i", "n">>
S_old == <<"o", "l", "d">>

\* the resolved --out-dir and the input directory of the modelled file system
OutputRoot == <<"/", "o", "u", "t">>
InputDir == <<"/", "i", "n">>

\* directory entries of the input directory: the entry's name and the name
\* of the file it resolves to (they differ for a symbolic link)
E_a == [name |-> <<"a", ".", "x", "y", "z">>, resolved |-> <<"a", ".", "x", "y", "z">>]
E_a1 == [name |-> <<"a", "_", "1", ".", "x", "y", "z">>,
         resolved |-> <<"a", "_", "1", ".", "x", "y", "z">>]
E_b == [name |-> <<"b", ".", "x", "y", "z">>, resolved |-> <<"b", ".", "x", "y", "z">>]
E_link == [name |-> <<"l", ".", "x", "y", "z">>, resolved |-> <<"t", ".", "x", "y", "z">>]
E_txt == [name |-> <<"c", ".", "t", "x", "t">>, resolved |-> <<"c", ".", "t", "x", "t">>]
E_upper == [name |-> <<"b", ".", "X", "Y", "Z">>, resolved |-> <<"b", ".", "X", "Y", "Z">>]
E_alias == [name |-> <<"k", ".", "x", "y", "z">>, resolved |-> <<"a", ".", "x", "y", "z">>]
DirEntries == {E_a, E_a1, E_b, E_link, E_txt}
FileEntries == {E_a, E_link, E_txt, E_upper}

(* --------------------------- str operations --------------------------- *)
Digit == {"0", "1", "2", "3", "4", "5", "6", "7", "8", "9"}
Whitespace == {" ", "\n", "\t"}

\* code points of the characters file names are made of (for sorted())
CharOrd(c) ==
    CASE c = "." -> 46 [] c = "/" -> 47 [] c = "1" -> 49
      [] c = "X" -> 88 [] c = "Y" -> 89 [] c = "Z" -> 90 [] c = "_" -> 95
      [] c = "a" -> 97 [] c = "b" -> 98 [] c = "c" -> 99 [] c = "k" -> 107 [] c = "l" -> 108
      [] c = "t" -> 116 [] c = "x" -> 120 [] c = "y" -> 121 [] c = "z" -> 122
      [] OTHER -> 0

\* str.lower() on one character
LowerChar(c) ==
    CASE c = "X" -> "x" [] c = "Y" -> "y" [] c = "Z" -> "z" [] c = "B" -> "b"
      [] OTHER -> c

Lower(s) == [i \in 1..Len(s) |-> LowerChar(s[i])]

StartsWith(s, p) == Len(s) >= Len(p) /\ SubSeq(s, 1, Len(p)) = p

EndsWith(s, p) == Len(s) >= Len(p) /\ SubSeq(s, Len(s) - Len(p) + 1, Len(s)) = p

\* the first index of character c in s, 0 when there is none
IndexOf(s, c) ==
    IF \E i \in 1..Len(s) : s[i] = c
    THEN CHOOSE i \in 1..Len(s) : s[i] = c /\ \A j \in 1..(i - 1) : s[j] # c
    ELSE 0

\* the last index of character c in s, 0 when there is none
LastIndexOf(s, c) ==
    IF \E i \in 1..Len(s) : s[i] = c
    THEN CHOOSE i \in 1..Len(s) : s[i] = c /\ \A j \in (i + 1)..Len(s) : s[j] # c
    ELSE 0

\* s.split(c)[0]
SplitFirst(s, c) ==
    IF IndexOf(s, c) = 0 THEN s ELSE SubSeq(s, 1, IndexOf(s, c) - 1)

\* a < b for str: lexicographic by code point
RECURSIVE StrLess(_, _)
StrLess(a, b) ==
    IF b = <<>> THEN FALSE
    ELSE IF a = <<>> THEN TRUE
    ELSE IF a[1] # b[1] THEN CharOrd(a[1]) < CharOrd(b[1])
    ELSE StrLess(Tail(a), Tail(b))

\* str(n) for n >= 0
DigitChar(d) ==
    CASE d = 0 -> "0" [] d = 1 -> "1" [] d = 2 -> "2" [] d = 3 -> "3" [] d = 4 -> "4"
      [] d = 5 -> "5" [] d = 6 -> "6" [] d = 7 -> "7" [] d = 8 -> "8" [] OTHER -> "9"

RECURSIVE Str(_)
Str(n) == IF n < 10 THEN <<DigitChar(n)>> ELSE Str(n \div 10) \o <<DigitChar(n % 10)>>

\* sep.join(parts)
RECURSIVE Join(_, _)
Join(sep, parts) ==
    IF parts = <<>> THEN <<>>
    ELSE IF Len(parts) = 1 THEN parts[1]
    ELSE parts[1] \o sep \o Join(sep, Tail(parts))

\* str.splitlines() for "\n" line ends
RECURSIVE SplitLines(_)
SplitLines(s) ==
    IF s = <<>> THEN <<>>
    ELSE IF IndexOf(s, "\n") = 0 THEN <<s>>
    ELSE <<SubSeq(s, 1, IndexOf(s, "\n") - 1)>>
         \o SplitLines(SubSeq(s, IndexOf(s, "\n") + 1, Len(s)))

\* str.strip()
RECURSIVE Strip(_)
Strip(s) ==
    IF s = <<>> THEN s
    ELSE IF s[1] \in Whitespace THEN Strip(Tail(s))
    ELSE IF s[Len(s)] \in Whitespace THEN Strip(SubSeq(s, 1, Len(s) - 1))
    ELSE s

(* --------------------------- pathlib.Path ----------------------------- *)
\* parent / name
PathJoin(parent, name) == parent \o <<"/">> \o name

\* Path.name
PathName(p) == SubSeq(p, LastIndexOf(p, "/") + 1, Len(p))

\* Path.parent
PathParent(p) == SubSeq(p, 1, LastIndexOf(p, "/") - 1)

\* Path.suffix of a file name: from its last dot, unless the dot leads or ends it
PathSuffix(name) ==
    IF LastIndexOf(name, ".") > 1 /\ LastIndexOf(name, ".") < Len(name)
    THEN SubSeq(name, LastIndexOf(name, "."), Len(name))
    ELSE <<>>

\* the entries by name, last first
RECURSIVE SortedByName_desc(_)
SortedByName_desc(S) ==
    IF S = {} THEN <<>>
    ELSE LET m == CHOOSE e \in S : \A f \in S \ {e} : StrLess(f.name, e.name)
         IN <<m>> \o SortedByName_desc(S \ {m})

\* sorted() of a set of entries by name
RECURSIVE SortedByName(_)
SortedByName(S) ==
    IF S = {} THEN <<>>
    ELSE LET m == CHOOSE e \in S : \A f \in S \ {e} : StrLess(e.name, f.name)
         IN <<m>> \o SortedByName(S \ {m})

(* ------------------- run-batch-pipeline.py: functions ----------------- *)
\* JOB_ID_RE.search(line): the first run of digits anywhere in the line
RECURSIVE JOB_ID_RE_search(_)
JOB_ID_RE_search(line) ==
    IF line = <<>> THEN <<>>
    ELSE IF line[1] \in Digit
    THEN <<line[1]>> \o (IF Len(line) > 1 /\ line[2] \in Digit
                         THEN JOB_ID_RE_search(Tail(line)) ELSE <<>>)
    ELSE JOB_ID_RE_search(Tail(line))

\* match.group(0): the leading digits with the ".suffix" that follows them
JOB_ID_RE_whole(line) ==
    LET n == CHOOSE k \in 0..Len(line) :
                 /\ \A i \in 1..k : line[i] \in Digit
                 /\ k = Len(line) \/ line[k + 1] \notin Digit
        rest == SubSeq(line, n + 1, Len(line))
        w == CHOOSE k \in 0..Len(rest) :
                 /\ \A i \in 1..k : rest[i] \notin Whitespace
                 /\ k = Len(rest) \/ rest[k + 1] \in Whitespace
    IN IF n = 0 THEN <<>>
       ELSE SubSeq(line, 1, n)
            \o (IF w >= 2 /\ rest[1] = "." THEN SubSeq(rest, 1, w) ELSE <<>>)

\* JOB_ID_RE.match(line): the leading digits of the line (the optional
\* ".suffix" group adds nothing to group "id"); <<>> when there is no match
RECURSIVE JOB_ID_RE(_)
JOB_ID_RE(line) ==
    IF line # <<>> /\ line[1] \in Digit
    THEN <<line[1]>> \o JOB_ID_RE(Tail(line))
    ELSE <<>>

\* the loop of _parse_qsub_job_id over the lines still to be read
RECURSIVE ParseLines(_)
ParseLines(lines) ==
    IF lines = <<>> THEN [ok |-> FALSE, id |-> <<>>]
    ELSE IF Strip(lines[1]) = <<>> THEN ParseLines(Tail(lines))
    ELSE IF JOB_ID_RE(Strip(lines[1])) # <<>>
         THEN [ok |-> TRUE, id |-> JOB_ID_RE(Strip(lines[1]))]
    ELSE ParseLines(Tail(lines))

\* ok = FALSE is the ValueError "Unable to parse qsub job id"
_parse_qsub_job_id(stdout_text) == ParseLines(SplitLines(stdout_text))

\* the glob "*" of a directory listing
GlobXyz_all(entries) == entries

\* the glob "*.xyz" of a directory listing
GlobXyz(entries) == {e \in entries : EndsWith(e.name, S_xyz)}

\* discovery that returns an empty list for a directory without .xyz files
_discover_xyz_files_lenient(input) ==
    IF input.kind = "missing"
    THEN [err |-> "FileNotFoundError", msg |-> "Path not found", files |-> <<>>]
    ELSE IF input.kind = "file"
    THEN LET e == CHOOSE x \in input.entries : TRUE
         IN IF Lower(PathSuffix(e.name)) # S_xyz
            THEN [err |-> "ValueError", msg |-> "Expected an XYZ file", files |-> <<>>]
            ELSE [err |-> "none", msg |-> "", files |-> <<PathJoin(InputDir, e.resolved)>>]
    ELSE LET xyz_files == SortedByName(GlobXyz(input.entries))
         IN [err |-> "none", msg |-> "",
             files |-> [i \in 1..Len(xyz_files) |-> PathJoin(InputDir, xyz_files[i].resolved)]]

\* input is the file system at args.path: kind "missing", "file" (one entry)
\* or "dir" (its entries).  err "none" means files is the returned list.
_discover_xyz_files(input) ==
    IF input.kind = "missing"
    THEN [err |-> "FileNotFoundError", msg |-> "Path not found", files |-> <<>>]
    ELSE IF input.kind = "file"
    THEN LET e == CHOOSE x \in input.entries : TRUE
         IN IF Lower(PathSuffix(e.name)) # S_xyz
            THEN [err |-> "ValueError", msg |-> "Expected an XYZ file", files |-> <<>>]
            ELSE [err |-> "none", msg |-> "", files |-> <<PathJoin(InputDir, e.resolved)>>]
    ELSE LET xyz_files == SortedByName(GlobXyz(input.entries))
         IN IF xyz_files = <<>>
            THEN [err |-> "ValueError", msg |-> "No .xyz files found in directory",
                  files |-> <<>>]
            ELSE [err |-> "none", msg |-> "",
                  files |-> [i \in 1..Len(xyz_files) |->
                                PathJoin(InputDir, xyz_files[i].resolved)]]

\* the id taken from Path.stem: the name without its last suffix
_run_id_from_xyz_stem(xyz_file, h_only) ==
    LET name == PathName(xyz_file)
        stem == SubSeq(name, 1, Len(name) - Len(PathSuffix(name)))
        base == SplitFirst(stem, "_")
    IN IF h_only THEN base \o S_H_only ELSE base

\* lines 100-102
_run_id_from_xyz(xyz_file, h_only) ==
    LET base == SplitFirst(SplitFirst(PathName(xyz_file), "."), "_")
    IN IF h_only THEN base \o S_H_only ELSE base

\* one -W option for each job id
RECURSIVE DependOptions(_)
DependOptions(ids) ==
    IF ids = <<>> THEN <<>>
    ELSE <<S_W, S_depend \o S_afterok \o ids[1]>> \o DependOptions(Tail(ids))

QsubCmd_perid(script_path, depend_afterok) ==
    <<S_qsub>> \o DependOptions(depend_afterok) \o <<PathName(script_path)>>

\* the command line _submit_job builds
QsubCmd(script_path, depend_afterok) ==
    <<S_qsub>>
    \o (IF depend_afterok # <<>>
        THEN <<S_W, S_depend \o S_afterok \o Join(<<":">>, depend_afterok)>>
        ELSE <<>>)
    \o <<PathName(script_path)>>

\* the reply is parsed whatever the exit status, and no id is an id too
_submit_job_unchecked(script_path, cwd, depend_afterok, reply) ==
    [cmd |-> QsubCmd(script_path, depend_afterok), cwd |-> cwd, err |-> "none", msg |-> "",
     id |-> _parse_qsub_job_id(reply.stdout).id]

\* reply is what the scheduler answered ([returncode, stdout]); depend_afterok
\* is <<>> for None.  err "none" means id is the returned job id.
_submit_job(script_path, cwd, depend_afterok, reply) ==
    LET cmd == QsubCmd(script_path, depend_afterok)
        parsed == _parse_qsub_job_id(reply.stdout)
    IN IF reply.returncode # 0
       THEN [cmd |-> cmd, cwd |-> cwd, err |-> "RuntimeError", msg |-> "qsub failed",
             id |-> <<>>]
       ELSE IF ~parsed.ok
       THEN [cmd |-> cmd, cwd |-> cwd, err |-> "ValueError",
             msg |-> "Unable to parse qsub job id", id |-> <<>>]
       ELSE [cmd |-> cmd, cwd |-> cwd, err |-> "none", msg |-> "", id |-> parsed.id]

\* write_text without the chmod
WriteFile_nochmod(fs_files, path, mode) ==
    {f \in fs_files : f.path # path} \cup {[path |-> path, mode |-> "644"]}

\* write_text + chmod on a file system given as a set of [path, mode]
WriteFile(fs_files, path, mode) ==
    {f \in fs_files : f.path # path} \cup {[path |-> path, mode |-> mode]}

IsFile(fs_files, path) == \E f \in fs_files : f.path = path

\* run_dir.glob("generated-*-orca.script"), sorted
GlobOrcaScripts(fs_files, run_dir) ==
    {f.path : f \in {g \in fs_files :
        /\ PathParent(g.path) = run_dir
        /\ Len(PathName(g.path)) >= Len(S_generated) + Len(S_orca_script)
        /\ StartsWith(PathName(g.path), S_generated)
        /\ EndsWith(PathName(g.path), S_orca_script)}}

(* --------------------- the script materializer ------------------------ *)
S_RUN_DIR == <<"[", "R", "U", "N", "_", "D", "I", "R", "]">>
S_RUN_ID == <<"[", "R", "U", "N", "_", "I", "D", "]">>
S_PREP_CORVUS == <<"[", "P", "R", "E", "P", "_", "C", "O", "R", "V", "U", "S", "]">>
S_BATCH_NAME == <<"[", "B", "A", "T", "C", "H", "_", "N", "A", "M", "E", "]">>
S_OUTPUT_ROOT == <<"[", "O", "U", "T", "P", "U", "T", "_", "R", "O", "O", "T", "]">>
S_EXTRACT_CMD == <<"[", "E", "X", "T", "R", "A", "C", "T", "_", "C", "M", "D", "]">>
S_PROCESS_FEFF_CMD ==
    <<"[", "P", "R", "O", "C", "E", "S", "S", "_", "F", "E", "F", "F", "_", "C", "M", "D", "]">>
S_PREPARE_DOWNLOAD_CMD ==
    <<"[", "P", "R", "E", "P", "A", "R", "E", "_", "D", "O", "W", "N", "L", "O", "A", "D", "_", "C", "M", "D", "]">>

\* s.replace(old, new): every occurrence, left to right, not overlapping
RECURSIVE Replace(_, _, _)
Replace(s, old, new) ==
    LET at == {i \in 1..(Len(s) - Len(old) + 1) : SubSeq(s, i, i + Len(old) - 1) = old}
    IN IF at = {} THEN s
       ELSE LET i == CHOOSE j \in at : \A k \in at : j <= k
            IN SubSeq(s, 1, i - 1) \o new
               \o Replace(SubSeq(s, i + Len(old), Len(s)), old, new)

\* lines 115, 159: script if script.endswith("\n") else script + "\n"
WithNewline(script) ==
    IF EndsWith(script, <<"\n">>) THEN script ELSE script \o <<"\n">>

\* some "[" of the text has a "]" after it
HasBracketToken(text) ==
    \E i \in 1..Len(text) : \E j \in (i + 1)..Len(text) : text[i] = "[" /\ text[j] = "]"

\* a renderer that refuses a text with a token it has no value for
_write_corvus_wrapper_script_strict(template, run_dir, run_id, prepare_corvus_py) ==
    LET script == Replace(Replace(Replace(template, S_RUN_DIR, run_dir),
                                  S_RUN_ID, run_id),
                          S_PREP_CORVUS, prepare_corvus_py)
    IN IF template = <<"None">>
       THEN [err |-> "FileNotFoundError", text |-> <<>>]
       ELSE IF HasBracketToken(script) THEN [err |-> "KeyError", text |-> <<>>]
       ELSE [err |-> "none", text |-> WithNewline(script)]

\* lines 105-115: template is the text of corvus-wrapper-qsub.script, or
\* <<"None">> when the file is missing; text is what write_text is given
_write_corvus_wrapper_script(template, run_dir, run_id, prepare_corvus_py) ==
    LET script == Replace(Replace(Replace(template, S_RUN_DIR, run_dir),
                                  S_RUN_ID, run_id),
                          S_PREP_CORVUS, prepare_corvus_py)
    IN IF template = <<"None">>
       THEN [err |-> "FileNotFoundError", text |-> <<>>]
       ELSE [err |-> "none", text |-> WithNewline(script)]

S_true == <<"t", "r", "u", "e">>
S_python_q == <<"p", "y", "t", "h", "o", "n", " ", "\"">>
S_q_q == <<"\"", " ", "\"">>
S_q == <<"\"">>
S_q_output_dir_q == <<"\"", " ", "-", "-", "o", "u", "t", "p", "u", "t", "-", "d", "i", "r", " ", "\"">>
S_q_recursive == <<"\"", " ", "-", "-", "r", "e", "c", "u", "r", "s", "i", "v", "e">>
S_q_d_q == <<"\"", " ", "-", "d", " ", "\"">>
S_extract_py == <<"e", "x", "t", "r", "a", "c", "t", "-", "o", "r", "c", "a", "-", "c", "o", "m", "p", "u", "t", "e", "-", "t", "i", "m", "e", "s", ".", "p", "y">>
S_process_feff_py == <<"p", "r", "o", "c", "e", "s", "s", "-", "f", "e", "f", "f", "-", "o", "u", "t", "p", "u", "t", ".", "p", "y">>
S_prepare_download_py == <<"p", "r", "e", "p", "a", "r", "e", "-", "f", "i", "l", "e", "s", "-", "f", "o", "r", "-", "d", "o", "w", "n", "l", "o", "a", "d", ".", "p", "y">>

\* the second slot switched off by the flag of the first
PostprocessCmdTexts_wrongflag(script_dir, output_root, download_destination, skip_extract, skip_process_feff, skip_prepare_download) ==
    [extract_cmd |->
         IF ~skip_extract
         THEN S_python_q \o PathJoin(script_dir, S_extract_py) \o S_q_q \o output_root
              \o S_q_output_dir_q \o output_root \o S_q
         ELSE S_true,
     process_feff_cmd |->
         IF ~skip_extract
         THEN S_python_q \o PathJoin(script_dir, S_process_feff_py) \o S_q_q \o output_root
              \o S_q_recursive
         ELSE S_true,
     prepare_download_cmd |->
         IF ~skip_prepare_download
         THEN S_python_q \o PathJoin(script_dir, S_prepare_download_py) \o S_q_q
              \o output_root \o S_q_d_q \o download_destination \o S_q
         ELSE S_true]

\* lines 128-130, 136-150: the text of the three sub-command slots
PostprocessCmdTexts(script_dir, output_root, download_destination, skip_extract, skip_process_feff, skip_prepare_download) ==
    [extract_cmd |->
         IF ~skip_extract
         THEN S_python_q \o PathJoin(script_dir, S_extract_py) \o S_q_q \o output_root
              \o S_q_output_dir_q \o output_root \o S_q
         ELSE S_true,
     process_feff_cmd |->
         IF ~skip_process_feff
         THEN S_python_q \o PathJoin(script_dir, S_process_feff_py) \o S_q_q \o output_root
              \o S_q_recursive
         ELSE S_true,
     prepare_download_cmd |->
         IF ~skip_prepare_download
         THEN S_python_q \o PathJoin(script_dir, S_prepare_download_py) \o S_q_q
              \o output_root \o S_q_d_q \o download_destination \o S_q
         ELSE S_true]

\* lines 119-159: template is the text of postprocess-qsub.script, or
\* <<"None">> when the file is missing; text is what write_text is given
_write_postprocess_script(template, script_dir, output_root, download_destination, skip_extract, skip_process_feff, skip_prepare_download) ==
    LET cmds == PostprocessCmdTexts(script_dir, output_root, download_destination,
                                    skip_extract, skip_process_feff, skip_prepare_download)
        script ==
            Replace(Replace(Replace(Replace(Replace(template,
                S_BATCH_NAME, PathName(output_root)),
                S_OUTPUT_ROOT, output_root),
                S_EXTRACT_CMD, cmds.extract_cmd),
                S_PROCESS_FEFF_CMD, cmds.process_feff_cmd),
                S_PREPARE_DOWNLOAD_CMD, cmds.prepare_download_cmd)
    IN IF template = <<"None">>
       THEN [err |-> "FileNotFoundError", text |-> <<>>]
       ELSE [err |-> "none", text |-> WithNewline(script)]

(* ------------------------ prepare-orca.py ----------------------------- *)
\* the lookup table of get_charge_multiplicity: (cys, his) -> (charge, mult)
lookup ==
    (<<4, 0>> :> <<0 - 2, 1>>) @@ (<<3, 1>> :> <<0 - 1, 1>>) @@ (<<2, 2>> :> <<0, 1>>)
    @@ (<<1, 3>> :> <<1, 1>>) @@ (<<0, 4>> :> <<2, 1>>)

\* found = FALSE is the pair (None, None)
get_charge_multiplicity(cys, his) ==
    IF <<cys, his>> \in DOMAIN lookup
    THEN [found |-> TRUE, charge |-> lookup[<<cys, his>>][1],
          multiplicity |-> lookup[<<cys, his>>][2]]
    ELSE [found |-> FALSE, charge |-> 0, multiplicity |-> 0]

\* the name process_xyz_file gives the run directory and its files
PrepOutputBase(filename, use_h_only) ==
    LET id_name == SplitFirst(SplitFirst(filename, "."), "_")
    IN IF use_h_only THEN id_name \o S_H_only ELSE id_name

\* the ORCA input template process_xyz_file reads
PrepTemplate(use_h_only) ==
    IF use_h_only THEN "orca-template-h-only.in" ELSE "orca-template.in"

\* the files process_xyz_file writes for one input file, with their modes;
\* it returns early when a template is missing beside the script
process_xyz_file(filename, installed_files, use_h_only) ==
    LET output_base == PrepOutputBase(filename, use_h_only)
        id_dir == PathJoin(OutputRoot, output_base)
        copied == {[path |-> PathJoin(id_dir, filename), mode |-> "644"],
                   [path |-> PathJoin(id_dir, output_base \o S_clean_xyz), mode |-> "644"],
                   [path |-> PathJoin(id_dir, output_base \o S_comments_txt), mode |-> "644"]}
        orca_in == {[path |-> PathJoin(id_dir, output_base \o S_in), mode |-> "644"]}
        qsub_script == {[path |-> PathJoin(id_dir, S_generated \o output_base \o S_orca_script),
                         mode |-> "755"]}
    IN IF PrepTemplate(use_h_only) \notin installed_files THEN copied
       ELSE IF "orca-qsub.script" \notin installed_files THEN copied \cup orca_in
       ELSE copied \cup orca_in \cup qsub_script

\* main() of prepare-orca.py run on the file system: its exit status, the
\* directories and files afterwards, and the scripts it handed to qsub itself
prepare_orca_main(input, cys, his, use_h_only, dry_run, installed_files, fs_dirs, fs_files) ==
    LET xyz_entries == IF input.kind = "file" THEN input.entries ELSE GlobXyz(input.entries)
        written == UNION {process_xyz_file(e.name, installed_files, use_h_only) : e \in xyz_entries}
        unchanged == [returncode |-> 1, root |-> FALSE, dirs |-> fs_dirs, files |-> fs_files,
                      submitted |-> {}]
    IN IF cys + his # 4 THEN unchanged
       ELSE IF ~get_charge_multiplicity(cys, his).found THEN unchanged
       ELSE IF input.kind = "missing" THEN [unchanged EXCEPT !.root = TRUE]
       ELSE IF input.kind = "file"
               /\ Lower(PathSuffix((CHOOSE x \in input.entries : TRUE).name)) # S_xyz
       THEN [unchanged EXCEPT !.root = TRUE]
       ELSE IF xyz_entries = {} THEN [unchanged EXCEPT !.root = TRUE, !.returncode = 0]
       ELSE [returncode |-> 0,
             root |-> TRUE,
             dirs |-> fs_dirs \cup {PathJoin(OutputRoot, PrepOutputBase(e.name, use_h_only)) :
                                      e \in xyz_entries},
             files |-> {f \in fs_files : \A w \in written : w.path # f.path} \cup written,
             submitted |-> IF dry_run THEN {}
                           ELSE {w.path : w \in {v \in written : v.mode = "755"}}]

(* ------------------------------ state --------------------------------- *)
VARIABLES
    args,                \* argparse namespace of the invocation
    input,               \* the file system at args.path
    on_path,             \* executables shutil.which finds
    installed,           \* files beside run-batch-pipeline.py
    root_exists,         \* output_root is a directory
    dirs,                \* directories under output_root
    files,               \* files under output_root: [path, mode]
    pc,                  \* position in main()
    error,               \* the exception that ended the run
    xyz_files,           \* main: xyz_files
    idx,                 \* main: position of the for loop in xyz_files
    cur,                 \* main: the loop body's locals
    records,             \* main: records
    prep_result,         \* main: prep_result
    postprocess_job_id,  \* main: postprocess_job_id
    clock,               \* the UTC clock _utc_now_iso reads
    qsub_next,           \* the scheduler: the number of its next job
    events,              \* effects on the outside, in order
    persisted,           \* the state files written: [path, state]
    fs0,                 \* the file system under output_root before the run
    call,                \* a function called on its own: its name and arguments
    ret                  \* what that call returned or raised

vars == <<args, input, on_path, installed, root_exists, dirs, files, pc, error,
          xyz_files, idx, cur, records, prep_result, postprocess_job_id, clock,
          qsub_next, events, persisted, fs0, call, ret>>

\* the variables of a run of main()
main_vars == <<args, input, on_path, installed, root_exists, dirs, files, pc, error,
               xyz_files, idx, cur, records, prep_result, postprocess_job_id, clock,
               qsub_next, events, persisted, fs0>>

\* the variables of a function called on its own
unit == <<call, ret>>

env == <<args, input, on_path, installed, fs0>>

\* Python's None where a str is expected
None == <<"None">>

PathExecutables == {"python", "qsub"}

ScriptDirFiles ==
    {"prepare-orca.py", "prepare-corvus.py", "corvus-wrapper-qsub.script",
     "postprocess-qsub.script", "orca-template.in", "orca-template-h-only.in",
     "orca-qsub.script"}

\* an explicit --state-file in a directory that exists, and in one that does not
StateFileInDir == <<"/", "o", "k", "/", "s", ".", "j", "s", "o", "n">>
StateFileNoDir == <<"/", "n", "o", "/", "s", ".", "j", "s", "o", "n">>
OtherDirs == {<<"/", "o", "k">>}
DownloadDestination == <<"/", "d", "l">>

\* a stale script of an earlier run, in the run directory of id "a"
StaleScript(k) ==
    [path |-> PathJoin(PathJoin(OutputRoot, <<"a">>), S_generated \o S_old \o Str(k) \o S_orca_script),
     mode |-> "755"]

NoCur ==
    [run_id |-> None, run_dir |-> None, orca_script |-> None, corvus_wrapper |-> None,
     orca_job_id |-> None, orca_submitted_utc |-> 0 - 1]

NoError == [type |-> "none", msg |-> "", path |-> None]

\* no function is called on its own during a run of main()
NoCall == [fn |-> "none"]
NoRet == [fn |-> "none"]

InputChoices ==
    {[kind |-> "missing", entries |-> {}]}
    \cup {[kind |-> "file", entries |-> {e}] : e \in FileEntries}
    \cup {[kind |-> "dir", entries |-> S] : S \in {T \in SUBSET DirEntries : Cardinality(T) <= MaxFiles}}

\* the three --skip-* flags: extract, process-feff, prepare-download
SkipChoices == {<<FALSE, FALSE, FALSE>>, <<TRUE, TRUE, FALSE>>}

\* the state before main() runs, for the given command lines and file systems
InitWith(count_pairs, inputs, state_files) ==
    /\ \E c \in count_pairs, h_only \in BOOLEAN, no_submit \in BOOLEAN,
          skip \in SkipChoices, sf \in state_files :
          args = [cys |-> c[1], his |-> c[2], H |-> h_only, no_submit |-> no_submit,
                  skip_extract |-> skip[1], skip_process_feff |-> skip[2],
                  skip_prepare_download |-> skip[3], state_file |-> sf]
    /\ input \in inputs
    /\ on_path \in SUBSET PathExecutables
    /\ installed \in SUBSET ScriptDirFiles
    /\ Cardinality(PathExecutables \ on_path) + Cardinality(ScriptDirFiles \ installed)
          <= MaxMissing
    /\ \E stale \in 0..MaxStale :
          /\ files = {StaleScript(k) : k \in 1..stale}
          /\ dirs = IF stale > 0 THEN {PathJoin(OutputRoot, <<"a">>)} ELSE {}
          /\ root_exists \in (IF stale > 0 THEN {TRUE} ELSE BOOLEAN)
    /\ pc = "validate"
    /\ error = NoError
    /\ xyz_files = <<>>
    /\ idx = 1
    /\ cur = NoCur
    /\ records = <<>>
    /\ prep_result = [ran |-> FALSE, returncode |-> 0]
    /\ postprocess_job_id = None
    /\ clock = 0
    /\ qsub_next = FirstJobId
    /\ events = <<>>
    /\ persisted = <<>>
    /\ fs0 = [root_exists |-> root_exists, dirs |-> dirs, files |-> files]
    /\ call = NoCall
    /\ ret = NoRet

\* composition counts of the main specification: a valid pair, a pair with
\* the wrong sum, and a pair with the right sum that is not in lookup
MainCounts == {<<2, 2>>, <<3, 2>>, <<5, 0 - 1>>}

Init == InitWith(MainCounts, InputChoices, {None, StateFileInDir, StateFileNoDir})

\* every pair of composition counts in range, on one good input directory
\* and one missing input path
CountRange == (0 - 1)..MaxCount

InitCounts ==
    InitWith(CountRange \X CountRange,
             {[kind |-> "dir", entries |-> {E_a}], [kind |-> "missing", entries |-> {}]},
             {None})

(* ------------------------------ main() -------------------------------- *)
\* the error is noted and the run goes on to the fan-in step
Abort_continue(type, msg, path) ==
    /\ pc' = "postprocess_write"
    /\ error' = [type |-> type, msg |-> msg, path |-> path]

\* the error is noted and the state file is written all the same
Abort_persist(type, msg, path) ==
    /\ pc' = "state"
    /\ error' = [type |-> type, msg |-> msg, path |-> path]

\* the failed statement is run again
Abort_retry(type, msg, path) ==
    /\ pc' = pc
    /\ error' = error

\* an uncaught exception (or SystemExit) ends the run
Abort(type, msg, path) ==
    /\ pc' = "aborted"
    /\ error' = [type |-> type, msg |-> msg, path |-> path]

\* counts below the total accepted too
CountsValid_atmost(cys, his) == cys + his <= 4

\* line 240: the composition counts main() accepts
CountsValid(cys, his) == cys + his = 4

\* lines 240-241
ValidateCounts ==
    /\ pc = "validate"
    /\ IF ~CountsValid(args.cys, args.his)
       THEN Abort("SystemExit", "cys + his must equal 4", None)
       ELSE pc' = "check_executables" /\ UNCHANGED error
    /\ UNCHANGED <<env, unit, root_exists, dirs, files, xyz_files, idx, cur, records,
                   prep_result, postprocess_job_id, clock, qsub_next, events, persisted>>

\* lines 243-249
CheckExecutables ==
    /\ pc = "check_executables"
    /\ IF ~args.skip_process_feff /\ "python" \notin on_path
       THEN Abort("RuntimeError", "Required executable not found in PATH: python", None)
       ELSE IF ~args.no_submit /\ "qsub" \notin on_path
       THEN Abort("RuntimeError", "Required executable not found in PATH: qsub", None)
       ELSE pc' = "check_scripts" /\ UNCHANGED error
    /\ UNCHANGED <<env, unit, root_exists, dirs, files, xyz_files, idx, cur, records,
                   prep_result, postprocess_job_id, clock, qsub_next, events, persisted>>

\* lines 251-256
CheckScripts ==
    /\ pc = "check_scripts"
    /\ IF "prepare-orca.py" \notin installed \/ "prepare-corvus.py" \notin installed
       THEN Abort("SystemExit", "Missing prepare-orca.py or prepare-corvus.py", None)
       ELSE pc' = "mkdir" /\ UNCHANGED error
    /\ UNCHANGED <<env, unit, root_exists, dirs, files, xyz_files, idx, cur, records,
                   prep_result, postprocess_job_id, clock, qsub_next, events, persisted>>

\* lines 258-261: output_root.mkdir(parents=True, exist_ok=True)
MakeOutputRoot ==
    /\ pc = "mkdir"
    /\ root_exists' = TRUE
    /\ events' = IF root_exists THEN events
                 ELSE Append(events, [op |-> "mkdir", path |-> OutputRoot])
    /\ pc' = "discover"
    /\ UNCHANGED <<env, unit, dirs, files, error, xyz_files, idx, cur, records,
                   prep_result, postprocess_job_id, clock, qsub_next, persisted>>

\* line 263
Discover ==
    /\ pc = "discover"
    /\ LET found == _discover_xyz_files(input)
       IN IF found.err # "none"
          THEN Abort(found.err, found.msg, InputDir) /\ UNCHANGED xyz_files
          ELSE xyz_files' = found.files /\ pc' = "prepare" /\ UNCHANGED error
    /\ UNCHANGED <<env, unit, root_exists, dirs, files, idx, cur, records,
                   prep_result, postprocess_job_id, clock, qsub_next, events, persisted>>

\* the command line without --dry-run
prepare_cmd_submitting ==
    [cys |-> args.cys, his |-> args.his, H |-> args.H, dry_run |-> FALSE]

\* lines 265-278: the options of the prepare-orca.py command line
prepare_cmd ==
    [cys |-> args.cys, his |-> args.his, H |-> args.H, dry_run |-> TRUE]

\* lines 265-286: the subprocess "python prepare-orca.py ... --dry-run"
RunPrepareOrca ==
    /\ pc = "prepare"
    /\ IF "python" \notin on_path
       THEN /\ Abort("FileNotFoundError", "No such file or directory: python", None)
            /\ UNCHANGED <<root_exists, dirs, files, prep_result, qsub_next, events>>
       ELSE LET res == prepare_orca_main(input, prepare_cmd.cys, prepare_cmd.his,
                                         prepare_cmd.H, prepare_cmd.dry_run,
                                         installed, dirs, files)
            IN /\ root_exists' = (root_exists \/ res.root)
               /\ dirs' = res.dirs
               /\ files' = res.files
               /\ prep_result' = [ran |-> TRUE, returncode |-> res.returncode]
               /\ qsub_next' = qsub_next + Cardinality(res.submitted)
               /\ events' = Append(events, [op |-> "proc", cmd |-> "prepare-orca.py",
                                            dry_run |-> prepare_cmd.dry_run,
                                            returncode |-> res.returncode,
                                            submitted |-> res.submitted])
               /\ IF res.returncode # 0
                  THEN Abort("RuntimeError", "prepare-orca.py failed", None)
                  ELSE /\ pc' = IF xyz_files = <<>> THEN "postprocess_write" ELSE "locate"
                       /\ UNCHANGED error
    /\ UNCHANGED <<env, unit, xyz_files, idx, cur, records, postprocess_job_id, clock, persisted>>

\* the script with the expected name taken without looking for it
LocateOrcaScript_unchecked(fs_files, run_dir, run_id) ==
    [found |-> TRUE, path |-> PathJoin(run_dir, S_generated \o run_id \o S_orca_script),
     err |-> "none", msg |-> ""]

\* lines 295-303: the stage-A script of a run directory; found = FALSE is the
\* exception raised at line 301, for no match and for several alike
LocateOrcaScript(fs_files, run_dir, run_id) ==
    LET exact == PathJoin(run_dir, S_generated \o run_id \o S_orca_script)
        matches == GlobOrcaScripts(fs_files, run_dir)
    IN IF IsFile(fs_files, exact) THEN [found |-> TRUE, path |-> exact, err |-> "none", msg |-> ""]
       ELSE IF Cardinality(matches) = 1
       THEN [found |-> TRUE, path |-> CHOOSE m \in matches : TRUE, err |-> "none", msg |-> ""]
       ELSE [found |-> FALSE, path |-> None, err |-> "FileNotFoundError",
             msg |-> "Could not locate generated ORCA qsub script"]

\* the loop run over the items last to first
xyz_reversed == xyz_files[Len(xyz_files) + 1 - idx]

\* line 289: the item of this pass of "for xyz in xyz_files"
xyz == xyz_files[idx]

\* lines 290-303
LocateItem ==
    /\ pc = "locate"
    /\ LET run_id == _run_id_from_xyz(xyz, args.H)
           run_dir == PathJoin(OutputRoot, run_id)
           orca_script == LocateOrcaScript(files, run_dir, run_id)
       IN IF run_dir \notin dirs
          THEN /\ Abort("FileNotFoundError", "Expected run directory not found", run_dir)
               /\ UNCHANGED cur
          ELSE IF ~orca_script.found
          THEN /\ Abort(orca_script.err, orca_script.msg, run_dir)
               /\ UNCHANGED cur
          ELSE /\ cur' = [NoCur EXCEPT !.run_id = run_id, !.run_dir = run_dir,
                                       !.orca_script = orca_script.path]
               /\ pc' = "wrapper"
               /\ UNCHANGED error
    /\ UNCHANGED <<env, unit, root_exists, dirs, files, xyz_files, idx, records,
                   prep_result, postprocess_job_id, clock, qsub_next, events, persisted>>

\* lines 305-306 and _write_corvus_wrapper_script (105-116)
WriteWrapper ==
    /\ pc = "wrapper"
    /\ LET corvus_wrapper ==
               PathJoin(cur.run_dir, S_generated \o cur.run_id \o S_corvus_wrapper_script)
       IN IF "corvus-wrapper-qsub.script" \notin installed
          THEN /\ Abort("FileNotFoundError", "Missing template: corvus-wrapper-qsub.script",
                        None)
               /\ UNCHANGED <<cur, files, events>>
          ELSE /\ files' = WriteFile(files, corvus_wrapper, "755")
               /\ events' = Append(events, [op |-> "write", path |-> corvus_wrapper,
                                            item |-> idx])
               /\ cur' = [cur EXCEPT !.corvus_wrapper = corvus_wrapper]
               /\ pc' = "submit"
               /\ UNCHANGED error
    /\ UNCHANGED <<env, unit, root_exists, dirs, xyz_files, idx, records,
                   prep_result, postprocess_job_id, clock, qsub_next, persisted>>

\* what qsub may answer for the job it would number n: refusal, the job id
\* with a host suffix, the id after a blank line, a line without id, and a
\* warning line before the id
QsubReplies(n) ==
    {[returncode |-> 1, stdout |-> <<>>],
     [returncode |-> 0, stdout |-> Str(n) \o <<".", "h", "n", "\n">>],
     [returncode |-> 0, stdout |-> <<"\n">> \o Str(n) \o <<"\n">>],
     [returncode |-> 0, stdout |-> <<"h", "n", "\n">>],
     [returncode |-> 0, stdout |-> <<"w", "\n">> \o Str(n) \o <<"\n">>]}

\* the event of one _submit_job call
QsubEvent(stage, item, script, res, reply) ==
    [op |-> "qsub", stage |-> stage, item |-> item, script |-> script,
     cmd |-> res.cmd, cwd |-> res.cwd, returncode |-> reply.returncode,
     err |-> res.err, id |-> res.id]

\* lines 319-330 and the loop's step: append the JobRecord, go to the next item
AppendRecord(orca_job_id, orca_submitted_utc, corvus_job_id, corvus_submitted_utc) ==
    /\ records' = Append(records,
          [run_id |-> cur.run_id, run_dir |-> cur.run_dir,
           orca_script |-> cur.orca_script, orca_job_id |-> orca_job_id,
           orca_submitted_utc |-> orca_submitted_utc,
           corvus_wrapper_script |-> cur.corvus_wrapper,
           corvus_job_id |-> corvus_job_id,
           corvus_submitted_utc |-> corvus_submitted_utc])
    /\ idx' = idx + 1
    /\ cur' = NoCur
    /\ pc' = IF idx = Len(xyz_files) THEN "postprocess_write" ELSE "locate"

\* lines 308-312, 319-330: --no-submit
PlanItem ==
    /\ pc = "submit"
    /\ args.no_submit
    /\ AppendRecord(NO_SUBMIT, clock, NO_SUBMIT, clock + 1)
    /\ clock' = clock + 2
    /\ UNCHANGED <<env, unit, root_exists, dirs, files, error, xyz_files,
                   prep_result, postprocess_job_id, qsub_next, events, persisted>>

\* lines 313-315
SubmitOrca ==
    /\ pc = "submit"
    /\ ~args.no_submit
    /\ clock' = clock + 1
    /\ \E reply \in QsubReplies(qsub_next) :
          LET res == _submit_job(cur.orca_script, cur.run_dir, <<>>, reply)
          IN /\ events' = Append(events, QsubEvent("orca", idx, cur.orca_script, res, reply))
             /\ qsub_next' = IF reply.returncode = 0 THEN qsub_next + 1 ELSE qsub_next
             /\ IF res.err # "none"
                THEN Abort(res.err, res.msg, cur.orca_script) /\ UNCHANGED cur
                ELSE /\ cur' = [cur EXCEPT !.orca_job_id = res.id,
                                           !.orca_submitted_utc = clock]
                     /\ pc' = "submit_corvus"
                     /\ UNCHANGED error
    /\ UNCHANGED <<env, unit, root_exists, dirs, files, xyz_files, idx, records,
                   prep_result, postprocess_job_id, persisted>>

\* stage B made to wait for the first item's stage A
corvus_depend_first == IF records # <<>> THEN <<records[1].orca_job_id>> ELSE <<cur.orca_job_id>>

\* line 317: depend_afterok of the stage-B submission
corvus_depend == <<cur.orca_job_id>>

\* lines 316-330
SubmitCorvus ==
    /\ pc = "submit_corvus"
    /\ clock' = clock + 1
    /\ \E reply \in QsubReplies(qsub_next) :
          LET res == _submit_job(cur.corvus_wrapper, cur.run_dir, corvus_depend, reply)
          IN /\ events' = Append(events, QsubEvent("corvus", idx, cur.corvus_wrapper, res, reply))
             /\ qsub_next' = IF reply.returncode = 0 THEN qsub_next + 1 ELSE qsub_next
             /\ IF res.err # "none"
                THEN /\ Abort(res.err, res.msg, cur.corvus_wrapper)
                     /\ UNCHANGED <<cur, idx, records>>
                ELSE /\ AppendRecord(cur.orca_job_id, cur.orca_submitted_utc, res.id, clock)
                     /\ UNCHANGED error
    /\ UNCHANGED <<env, unit, root_exists, dirs, files, xyz_files,
                   prep_result, postprocess_job_id, persisted>>

\* lines 136-150: the three sub-command slots of the postprocess script
PostprocessCmds(skip_extract, skip_process_feff, skip_prepare_download) ==
    [extract_cmd |-> IF ~skip_extract THEN "python extract-orca-compute-times.py" ELSE "true",
     process_feff_cmd |-> IF ~skip_process_feff THEN "python process-feff-output.py" ELSE "true",
     prepare_download_cmd |->
         IF ~skip_prepare_download THEN "python prepare-files-for-download.py" ELSE "true"]

\* line 332
postprocess_script ==
    PathJoin(OutputRoot, S_generated_postprocess \o PathName(OutputRoot) \o S_script)

\* lines 332-341 and _write_postprocess_script (119-160)
WritePostprocess ==
    /\ pc = "postprocess_write"
    /\ IF "postprocess-qsub.script" \notin installed
       THEN /\ Abort("FileNotFoundError", "Missing template: postprocess-qsub.script", None)
            /\ UNCHANGED <<files, events>>
       ELSE /\ files' = WriteFile(files, postprocess_script, "755")
            /\ events' = Append(events,
                  [op |-> "write", path |-> postprocess_script, item |-> 0,
                   cmds |-> PostprocessCmds(args.skip_extract, args.skip_process_feff,
                                            args.skip_prepare_download)])
            /\ pc' = "postprocess_submit"
            /\ UNCHANGED error
    /\ UNCHANGED <<env, unit, root_exists, dirs, xyz_files, idx, cur, records,
                   prep_result, postprocess_job_id, clock, qsub_next, persisted>>

\* the fan-in made to wait for the stage-A jobs
corvus_ids_orca == [i \in 1..Len(records) |-> records[i].orca_job_id]

\* line 347
corvus_ids == [i \in 1..Len(records) |-> records[i].corvus_job_id]

\* lines 343-348
SubmitPostprocess ==
    /\ pc = "postprocess_submit"
    /\ IF args.no_submit
       THEN /\ postprocess_job_id' = NO_SUBMIT
            /\ pc' = "state"
            /\ UNCHANGED <<error, qsub_next, events>>
       ELSE \E reply \in QsubReplies(qsub_next) :
               LET res == _submit_job(postprocess_script, OutputRoot, corvus_ids, reply)
               IN /\ events' = Append(events,
                        QsubEvent("postprocess", 0, postprocess_script, res, reply))
                  /\ qsub_next' = IF reply.returncode = 0 THEN qsub_next + 1 ELSE qsub_next
                  /\ IF res.err # "none"
                     THEN /\ Abort(res.err, res.msg, postprocess_script)
                          /\ UNCHANGED postprocess_job_id
                     ELSE /\ postprocess_job_id' = res.id
                          /\ pc' = "state"
                          /\ UNCHANGED error
    /\ UNCHANGED <<env, unit, root_exists, dirs, files, xyz_files, idx, cur, records,
                   prep_result, clock, persisted>>

\* lines 350-354
state_file ==
    IF args.state_file # None THEN args.state_file
    ELSE PathJoin(OutputRoot, S_pipeline_state \o PathName(OutputRoot) \o S_json)

\* is_dir() anywhere in the file system
IsDir(path) ==
    \/ path = OutputRoot /\ root_exists
    \/ path \in dirs
    \/ path \in OtherDirs

\* the BatchState built before the fan-in job id is known
state_before_fanin ==
    [created_utc |-> clock,
     input_path |-> InputDir,
     output_root |-> OutputRoot,
     download_destination |-> DownloadDestination,
     cys |-> args.cys, his |-> args.his, h_only |-> args.H,
     postprocess_job_id |-> None,
     runs |-> records]

\* lines 356-366: the BatchState
state ==
    [created_utc |-> clock,
     input_path |-> IF input.kind = "file"
                    THEN PathJoin(InputDir, (CHOOSE e \in input.entries : TRUE).resolved)
                    ELSE InputDir,
     output_root |-> OutputRoot,
     download_destination |-> DownloadDestination,
     cys |-> args.cys, his |-> args.his, h_only |-> args.H,
     postprocess_job_id |-> postprocess_job_id,
     runs |-> records]

\* lines 350-387: state_file.write_text needs the parent directory
WriteState ==
    /\ pc = "state"
    /\ clock' = clock + 1
    /\ IF ~IsDir(PathParent(state_file))
       THEN /\ Abort("FileNotFoundError", "No such file or directory", state_file)
            /\ UNCHANGED <<files, events, persisted>>
       ELSE /\ files' = WriteFile(files, state_file, "644")
            /\ persisted' = Append(persisted, [path |-> state_file, state |-> state])
            /\ events' = Append(events, [op |-> "state", path |-> state_file])
            /\ pc' = "done"
            /\ UNCHANGED error
    /\ UNCHANGED <<env, unit, root_exists, dirs, xyz_files, idx, cur, records,
                   prep_result, postprocess_job_id, qsub_next>>

Next ==
    \/ ValidateCounts
    \/ CheckExecutables
    \/ CheckScripts
    \/ MakeOutputRoot
    \/ Discover
    \/ RunPrepareOrca
    \/ LocateItem
    \/ WriteWrapper
    \/ PlanItem
    \/ SubmitOrca
    \/ SubmitCorvus
    \/ WritePostprocess
    \/ SubmitPostprocess
    \/ WriteState

Spec == Init /\ [][Next]_vars

SpecCounts == InitCounts /\ [][Next]_vars

\* main() is one thread of control: a statement that can run does run, and
\* every call of the subprocess and of the scheduler returns
InitTerminating ==
    InitWith({<<2, 2>>, <<5, 0 - 1>>},
             {[kind |-> "missing", entries |-> {}], [kind |-> "file", entries |-> {E_a}],
              [kind |-> "dir", entries |-> {E_a, E_b}],
              [kind |-> "dir", entries |-> {E_a, E_link}]},
             {None, StateFileNoDir})

SpecTerminating == InitTerminating /\ [][Next]_vars /\ WF_vars(Next)

(* ------------------- the functions called on their own ---------------- *)
\* the texts of at most n characters (or items) of A
Texts(A, n) == UNION {[1..k -> A] : k \in 0..n}

\* what qsub may print: digits, a host suffix, blanks and line ends
StdoutChars == {"7", ".", "h", " ", "\n"}
StdoutTexts == Texts(StdoutChars, MaxStdout) \cup {<<"1", "0", "3", "4", "5", ".", "h", "e", "a", "d", "n", "o", "d", "e", "\n">>}

JobIds == {<<"1", "0", "1">>, <<"1", "0", "2">>}
DependLists == Texts(JobIds, MaxDeps)
SubmitReplies ==
    {[returncode |-> rc, stdout |-> t] :
        rc \in {0, 1}, t \in {<<"1", "0", "3", "4", "5", ".", "h", "e", "a", "d", "n", "o", "d", "e", "\n">>, <<>>, <<"h", "\n">>, <<"h", "\n", "7", "\n">>}}

NameChars == {"a", "b", ".", "_"}
FileNames == Texts(NameChars, MaxNameLen) \ {<<>>}

\* the file systems _discover_xyz_files is tried on: a directory may also
\* hold a file with an upper-case extension and a link to a file beside it
DiscoverInputs ==
    InputChoices
    \cup {[kind |-> "dir", entries |-> S] :
             S \in {T \in SUBSET (DirEntries \cup {E_upper, E_alias}) :
                        Cardinality(T) <= MaxFiles}}

\* template texts: placeholders of both templates, a token of neither,
\* plain text and line ends, in any order
S_X == <<"[", "X", "]">>
Pieces == {S_RUN_ID, S_BATCH_NAME, S_X, <<"a">>, <<"\n">>}
TemplatePieces == Texts(Pieces, MaxPieces)

\* the template file read: its text and the pieces the text is made of, or
\* None for a file that is missing
Templates ==
    {[text |-> Join(<<>>, ps), pieces |-> ps] : ps \in TemplatePieces}
    \cup {[text |-> None, pieces |-> <<>>]}

\* a template with the three sub-command slots, one on each line
SlotPieces ==
    <<S_EXTRACT_CMD, <<"\n">>, S_PROCESS_FEFF_CMD, <<"\n">>, S_PREPARE_DOWNLOAD_CMD, <<"\n">>>>
SlotTemplate == [text |-> Join(<<>>, SlotPieces), pieces |-> SlotPieces]

\* skip_extract, skip_process_feff, skip_prepare_download
SkipFlags == BOOLEAN \X BOOLEAN \X BOOLEAN

\* the directory of run-batch-pipeline.py
ScriptDir == <<"/", "s">>
PrepareCorvusPy == PathJoin(ScriptDir, <<"p", "r", "e", "p", "a", "r", "e", "-", "c", "o", "r", "v", "u", "s", ".", "p", "y">>)

Calls ==
    {[fn |-> "_parse_qsub_job_id", stdout_text |-> t] : t \in StdoutTexts}
    \cup {[fn |-> "_submit_job", script_path |-> postprocess_script, cwd |-> OutputRoot,
           depend_afterok |-> d, reply |-> r] : d \in DependLists, r \in SubmitReplies}
    \cup {[fn |-> "_run_id_from_xyz", xyz_file |-> PathJoin(InputDir, n), h_only |-> h] :
             n \in FileNames, h \in BOOLEAN}
    \cup {[fn |-> "_discover_xyz_files", path_arg |-> i] : i \in DiscoverInputs}
    \cup {[fn |-> "_write_corvus_wrapper_script", template |-> t.text, pieces |-> t.pieces] :
             t \in Templates}
    \cup {[fn |-> "_write_postprocess_script", template |-> t.text, pieces |-> t.pieces,
           skip |-> k] : t \in Templates \cup {SlotTemplate}, k \in SkipFlags}

\* main() has not been started; one function is about to be called
InitFunctions ==
    /\ args = [cys |-> 2, his |-> 2, H |-> FALSE, no_submit |-> TRUE,
               skip_extract |-> FALSE, skip_process_feff |-> FALSE,
               skip_prepare_download |-> FALSE, state_file |-> None]
    /\ input = [kind |-> "missing", entries |-> {}]
    /\ on_path = PathExecutables
    /\ installed = ScriptDirFiles
    /\ files = {}
    /\ dirs = {}
    /\ root_exists = FALSE
    /\ pc = "validate"
    /\ error = NoError
    /\ xyz_files = <<>>
    /\ idx = 1
    /\ cur = NoCur
    /\ records = <<>>
    /\ prep_result = [ran |-> FALSE, returncode |-> 0]
    /\ postprocess_job_id = None
    /\ clock = 0
    /\ qsub_next = FirstJobId
    /\ events = <<>>
    /\ persisted = <<>>
    /\ fs0 = [root_exists |-> root_exists, dirs |-> dirs, files |-> files]
    /\ call \in Calls
    /\ ret = NoRet

Call_parse_qsub_job_id ==
    /\ call.fn = "_parse_qsub_job_id" /\ ret = NoRet
    /\ ret' = [fn |-> call.fn, out |-> _parse_qsub_job_id(call.stdout_text)]
    /\ UNCHANGED <<main_vars, call>>

Call_submit_job ==
    /\ call.fn = "_submit_job" /\ ret = NoRet
    /\ ret' = [fn |-> call.fn,
               out |-> _submit_job(call.script_path, call.cwd, call.depend_afterok,
                                   call.reply)]
    /\ UNCHANGED <<main_vars, call>>

Call_run_id_from_xyz ==
    /\ call.fn = "_run_id_from_xyz" /\ ret = NoRet
    /\ ret' = [fn |-> call.fn, out |-> _run_id_from_xyz(call.xyz_file, call.h_only)]
    /\ UNCHANGED <<main_vars, call>>

Call_discover_xyz_files ==
    /\ call.fn = "_discover_xyz_files" /\ ret = NoRet
    /\ ret' = [fn |-> call.fn, out |-> _discover_xyz_files(call.path_arg)]
    /\ UNCHANGED <<main_vars, call>>

Call_write_corvus_wrapper_script ==
    /\ call.fn = "_write_corvus_wrapper_script" /\ ret = NoRet
    /\ ret' = [fn |-> call.fn,
               out |-> _write_corvus_wrapper_script(call.template,
                           PathJoin(OutputRoot, <<"a">>), <<"a">>, PrepareCorvusPy)]
    /\ UNCHANGED <<main_vars, call>>

Call_write_postprocess_script ==
    /\ call.fn = "_write_postprocess_script" /\ ret = NoRet
    /\ ret' = [fn |-> call.fn,
               out |-> _write_postprocess_script(call.template, ScriptDir, OutputRoot,
                           DownloadDestination, call.skip[1], call.skip[2], call.skip[3])]
    /\ UNCHANGED <<main_vars, call>>

NextFunctions ==
    \/ Call_parse_qsub_job_id
    \/ Call_submit_job
    \/ Call_run_id_from_xyz
    \/ Call_discover_xyz_files
    \/ Call_write_corvus_wrapper_script
    \/ Call_write_postprocess_script

SpecFunctions == InitFunctions /\ [][NextFunctions]_vars

(* ------------------------------ claims -------------------------------- *)
IsQsub(e) == e.op = "qsub"

\* the scheduler calls of the run, in order
QsubCalls == SelectSeq(events, IsQsub)

\* the run directory main() uses for the i-th discovered item
RunDirOf(i) == PathJoin(OutputRoot, _run_id_from_xyz(xyz_files[i], args.H))

\* the command line of a submission that waits for the jobs ids
DependCmd(script, ids) ==
    <<S_qsub, S_W, S_depend \o S_afterok \o Join(<<":">>, ids), PathName(script)>>

\* C1: every stage-B (CORVUS wrapper) submission comes after a stage-A (ORCA)
\* submission of the same item that returned a job id, and its command line
\* carries the dependency afterok on exactly that id, which no other item's
\* stage A returned.
C1_StageBDependsOnOwnStageA ==
    \A k \in 1..Len(events) :
        (IsQsub(events[k]) /\ events[k].stage = "corvus") =>
            /\ ~args.no_submit
            /\ \E j \in 1..(k - 1) :
                  /\ IsQsub(events[j]) /\ events[j].stage = "orca"
                  /\ events[j].item = events[k].item
                  /\ events[j].err = "none"
                  /\ events[j].cwd = RunDirOf(events[k].item)
                  /\ events[k].cwd = RunDirOf(events[k].item)
                  /\ events[k].cmd = DependCmd(events[k].script, <<events[j].id>>)
                  /\ \A i \in 1..Len(events) :
                        (/\ IsQsub(events[i]) /\ events[i].stage = "orca"
                         /\ events[i].err = "none"
                         /\ events[i].item # events[k].item)
                        => events[i].id # events[j].id

\* a stage-B submission of the second item has been accepted
C1_Witness ==
    \E k \in 1..Len(events) :
        /\ IsQsub(events[k]) /\ events[k].stage = "corvus"
        /\ events[k].item = 2 /\ events[k].err = "none"

\* the job ids the accepted stage-B submissions returned, in order
IsCorvusOk(e) == IsQsub(e) /\ e.stage = "corvus" /\ e.err = "none"
CorvusOkCalls == SelectSeq(events, IsCorvusOk)
CorvusIdsReturned == [i \in 1..Len(CorvusOkCalls) |-> CorvusOkCalls[i].id]

\* C2: the fan-in (postprocess) job is submitted only when the loop is over,
\* when the stage-B submission of every item has returned its id, and its
\* command line carries afterok on exactly the stage-B ids of all records,
\* one per record, in record order.
C2_FanInDependsOnAllStageB ==
    \A k \in 1..Len(events) :
        (IsQsub(events[k]) /\ events[k].stage = "postprocess") =>
            /\ ~args.no_submit
            /\ Len(records) = Len(xyz_files)
            /\ idx = Len(xyz_files) + 1
            /\ Len(CorvusOkCalls) = Len(xyz_files)
            /\ \A i \in 1..Len(xyz_files) :
                  /\ CorvusOkCalls[i].item = i
                  /\ records[i].corvus_job_id = CorvusOkCalls[i].id
                  /\ records[i].orca_job_id # CorvusOkCalls[i].id
            /\ \A j \in 1..Len(events) : IsCorvusOk(events[j]) => j < k
            /\ events[k].cmd = DependCmd(postprocess_script, CorvusIdsReturned)
            /\ events[k].cwd = OutputRoot

\* the fan-in job of a two-item batch has been submitted
C2_Witness ==
    \E k \in 1..Len(events) :
        /\ IsQsub(events[k]) /\ events[k].stage = "postprocess"
        /\ Len(records) = 2

\* C3: the scheduler calls of a run are stageA(1), stageB(1), ..., stageA(N),
\* stageB(N), fan-in, each made in the run directory of the item in discovery
\* order and each made only after the call before it returned a job id; the
\* preparation step submits nothing; a successful submit-mode run makes exactly
\* 2N+1 calls.
C3_SequentialSubmissionOrder ==
    LET N == Len(xyz_files)
        Q == QsubCalls
    IN /\ Len(Q) <= 2 * N + 1
       /\ \A k \in 1..Len(Q) :
             /\ k < Len(Q) => Q[k].err = "none"
             /\ (k <= 2 * N /\ k % 2 = 1) =>
                   Q[k].stage = "orca" /\ Q[k].item = (k + 1) \div 2
                   /\ Q[k].cwd = RunDirOf((k + 1) \div 2)
                   /\ PathParent(Q[k].script) = RunDirOf((k + 1) \div 2)
             /\ (k <= 2 * N /\ k % 2 = 0) =>
                   Q[k].stage = "corvus" /\ Q[k].item = k \div 2
                   /\ Q[k].cwd = RunDirOf(k \div 2)
                   /\ PathParent(Q[k].script) = RunDirOf(k \div 2)
             /\ k = 2 * N + 1 => Q[k].stage = "postprocess"
       /\ \A k \in 1..Len(events) : events[k].op = "proc" => events[k].submitted = {}
       /\ (pc = "done" /\ ~args.no_submit) => Len(Q) = 2 * N + 1 /\ Q[Len(Q)].err = "none"

\* a submit-mode run over two items with different ids has ended well
C3_Witness ==
    /\ pc = "done" /\ ~args.no_submit /\ Len(xyz_files) = 2
    /\ records[1].run_id # records[2].run_id

\* the errors of the per-item steps before any submission of the item
ItemStepErrors ==
    {"Expected run directory not found", "Could not locate generated ORCA qsub script",
     "Missing template: corvus-wrapper-qsub.script"}

HasItem(e) == e.op \in {"qsub", "write"}

\* C4: a failed step ends the run with its error: a failed submission is the
\* last effect of the run; after a failed per-item step there is no effect
\* for that item, for a later item or for the fan-in, and the records are
\* those of the items before; a missing run directory or stage-A script is
\* reported with the item's run directory; an aborted run holds a fan-in
\* submission only if the failure is that submission or the state write.
C4_AbortEarly ==
    /\ (error # NoError) <=> (pc = "aborted")
    /\ \A k \in 1..Len(events) :
          (IsQsub(events[k]) /\ events[k].err # "none") =>
              /\ k = Len(events)
              /\ pc = "aborted"
              /\ error.type = events[k].err
              /\ error.path = events[k].script
    /\ (pc = "aborted" /\ error.msg \in ItemStepErrors) =>
          /\ idx \in 1..Len(xyz_files)
          /\ Len(records) = idx - 1
          /\ \A k \in 1..Len(events) : HasItem(events[k]) => events[k].item \in 1..(idx - 1)
    /\ (pc = "aborted"
        /\ error.msg \in {"Expected run directory not found",
                          "Could not locate generated ORCA qsub script"}) =>
          error.path = RunDirOf(idx)
    /\ \A k \in 1..Len(events) :
          (pc = "aborted" /\ IsQsub(events[k]) /\ events[k].stage \in {"orca", "corvus"}
           /\ events[k].err # "none") =>
              /\ Len(records) = events[k].item - 1
              /\ \A j \in 1..Len(events) :
                    HasItem(events[j]) => events[j].item \in 1..events[k].item
    /\ \A k \in 1..Len(events) :
          (pc = "aborted" /\ IsQsub(events[k]) /\ events[k].stage = "postprocess") =>
              \/ k = Len(events) /\ events[k].err # "none"
              \/ error.msg = "No such file or directory" /\ error.path = state_file

\* the stage-A script of the second item was not found after the first item
\* had been submitted
C4_Witness ==
    /\ pc = "aborted"
    /\ error.msg = "Could not locate generated ORCA qsub script"
    /\ idx = 2
    /\ Len(QsubCalls) = 2

FileMode(path) == (CHOOSE f \in files : f.path = path).mode

\* a JobRecord of a plan-only run
PlannedRecord(rec) ==
    /\ rec.orca_job_id = NO_SUBMIT
    /\ rec.corvus_job_id = NO_SUBMIT
    /\ rec.orca_submitted_utc >= 0
    /\ rec.corvus_submitted_utc >= rec.orca_submitted_utc
    /\ IsFile(files, rec.orca_script)
    /\ IsFile(files, rec.corvus_wrapper_script)
    /\ FileMode(rec.corvus_wrapper_script) = "755"

\* C5: with --no-submit the scheduler is never called, neither by main() nor
\* by the preparation step; every record holds the sentinel for both ids and
\* both timestamps, and its stage-B wrapper is on disk and executable; once
\* the fan-in id is set it is the sentinel and the fan-in script is on disk
\* and executable; the persisted state holds the same.
C5_PlanOnlySubmitsNothing ==
    args.no_submit =>
        /\ QsubCalls = <<>>
        /\ qsub_next = FirstJobId
        /\ \A k \in 1..Len(events) : events[k].op = "proc" => events[k].submitted = {}
        /\ \A i \in 1..Len(records) : PlannedRecord(records[i])
        /\ postprocess_job_id \in {None, NO_SUBMIT}
        /\ postprocess_job_id = NO_SUBMIT =>
              /\ Len(records) = Len(xyz_files)
              /\ IsFile(files, postprocess_script)
              /\ FileMode(postprocess_script) = "755"
        /\ \A k \in 1..Len(persisted) :
              /\ persisted[k].state.postprocess_job_id = NO_SUBMIT
              /\ persisted[k].state.created_utc >= 0
              /\ Len(persisted[k].state.runs) = Len(xyz_files)
              /\ \A i \in 1..Len(persisted[k].state.runs) :
                    PlannedRecord(persisted[k].state.runs[i])

\* a plan-only run over two items has written its state
C5_Witness ==
    /\ args.no_submit /\ pc = "done"
    /\ Len(persisted) = 1
    /\ Len(persisted[1].state.runs) = 2

\* the input files main() is to work on
FoundEntries == IF input.kind = "dir" THEN GlobXyz(input.entries) ELSE input.entries

\* C6: when a run ends well the state has been persisted, its runs hold one
\* JobRecord per discovered input file, the i-th record being that of the
\* i-th file by name, and its postprocess_job_id is not None.
C6_OneRecordPerItemInOrder ==
    pc = "done" =>
        /\ Len(persisted) = 1
        /\ persisted[1].state.postprocess_job_id # None
        /\ Len(persisted[1].state.runs) = Cardinality(FoundEntries)
        /\ \A i \in 1..Len(persisted[1].state.runs) :
              \E e \in FoundEntries :
                  /\ Cardinality({f \in FoundEntries : StrLess(f.name, e.name)}) = i - 1
                  /\ persisted[1].state.runs[i].run_id
                        = _run_id_from_xyz(PathJoin(InputDir, e.resolved), args.H)
                  /\ persisted[1].state.runs[i].run_dir
                        = PathJoin(OutputRoot, persisted[1].state.runs[i].run_id)

\* a run over two files with different ids has ended well
C6_Witness ==
    /\ pc = "done"
    /\ Len(records) = 2
    /\ records[1].run_id # records[2].run_id

IsStateWrite(e) == e.op = "state"

\* C7: the state is written at most once; the write is the last effect of
\* the run, made when the fan-in job id is set (the id the fan-in submission
\* returned, or the sentinel), and the state written holds that id and all
\* records.
C7_StateWrittenOnceLast ==
    /\ Len(persisted) <= 1
    /\ Len(SelectSeq(events, IsStateWrite)) = Len(persisted)
    /\ \A k \in 1..Len(events) : IsStateWrite(events[k]) => k = Len(events) /\ pc = "done"
    /\ persisted # <<>> =>
          /\ pc = "done"
          /\ postprocess_job_id # None
          /\ persisted[1].state.postprocess_job_id = postprocess_job_id
          /\ persisted[1].state.runs = records
          /\ Len(records) = Len(xyz_files)
          /\ args.no_submit => postprocess_job_id = NO_SUBMIT
          /\ ~args.no_submit =>
                /\ QsubCalls # <<>>
                /\ QsubCalls[Len(QsubCalls)].stage = "postprocess"
                /\ QsubCalls[Len(QsubCalls)].id = postprocess_job_id

\* the state of a submit-mode run has been written
C7_Witness ==
    /\ persisted # <<>>
    /\ ~args.no_submit
    /\ Len(records) = 2

IsAccepted(e) == IsQsub(e) /\ e.returncode = 0

\* C8: a run that ended in an error has written no state: nothing is
\* persisted, no state file is on disk, and the jobs the scheduler accepted
\* are all still there: the run's effects hold no call but its submissions.
C8_NoStateOnError ==
    error # NoError =>
        /\ persisted = <<>>
        /\ ~IsFile(files, state_file)
        /\ \A k \in 1..Len(events) : events[k].op \in {"mkdir", "proc", "write", "qsub"}
        /\ qsub_next - FirstJobId = Len(SelectSeq(events, IsAccepted))

\* the fan-in step failed after both jobs of two items were accepted
C8_Witness ==
    /\ error # NoError
    /\ Len(records) = 2
    /\ qsub_next >= FirstJobId + 4
    /\ error.msg \in {"qsub failed", "Missing template: postprocess-qsub.script"}

\* the run was ended by the composition check
CountsRejected == error.msg = "cys + his must equal 4"

\* the file system under output_root now
FsNow == [root_exists |-> root_exists, dirs |-> dirs, files |-> files]

\* C9: past the composition check, the run was ended by it exactly when
\* cys + his is not 4; a run ended by it has changed nothing in the file
\* system and has run no external process.
C9_CountsValidatedFirst ==
    /\ pc # "validate" => (CountsRejected <=> args.cys + args.his # 4)
    /\ CountsRejected =>
          /\ pc = "aborted"
          /\ error.type = "SystemExit"
          /\ events = <<>>
          /\ FsNow = fs0
          /\ ~prep_result.ran
          /\ qsub_next = FirstJobId
          /\ persisted = <<>>

\* a pair with a negative count was rejected with no output root on disk
C9_Witness ==
    /\ CountsRejected
    /\ args.cys < 0
    /\ ~root_exists

\* C10: a run ended by an unresolvable input path (missing, a file that is
\* not .xyz, a directory without .xyz files) has changed nothing in the file
\* system: the output root has not been created.
C10_DiscoveryFailsBeforeMutation ==
    (pc = "aborted"
     /\ error.msg \in {"Path not found", "Expected an XYZ file",
                       "No .xyz files found in directory"}) =>
        /\ FsNow = fs0
        /\ events = <<>>

IsNonBlank(line) == Strip(line) # <<>>
BeginsWithDigit(line) == Strip(line) # <<>> /\ Strip(line)[1] \in Digit

\* the digits a text begins with
DigitPrefix(t) ==
    SubSeq(t, 1, CHOOSE n \in 0..Len(t) :
                     /\ \A i \in 1..n : t[i] \in Digit
                     /\ n = Len(t) \/ t[n + 1] \notin Digit)

\* the lines of the reply that was parsed: those that are not blank, and
\* those that begin with a digit
ParsedNonBlank == SelectSeq(SplitLines(call.stdout_text), IsNonBlank)
ParsedDigitLines == SelectSeq(SplitLines(call.stdout_text), BeginsWithDigit)

\* C11 as stated: an id returned by _parse_qsub_job_id is the leading digits
\* of the first non-blank line of the reply, never of a later line.
C11_IdFromFirstNonBlankLine ==
    (ret.fn = "_parse_qsub_job_id" /\ ret.out.ok) =>
        /\ BeginsWithDigit(ParsedNonBlank[1])
        /\ ret.out.id = DigitPrefix(Strip(ParsedNonBlank[1]))

\* C11 as amended: _parse_qsub_job_id returns the leading digits of the first
\* non-blank line that begins with a digit, whatever follows the digits and
\* whatever non-blank lines come before it; it fails exactly when no line of
\* the reply begins with a digit; "10345.headnode\n" yields "10345".
C11_IdFromFirstLineWithDigits ==
    ret.fn = "_parse_qsub_job_id" =>
        /\ ret.out.ok <=> ParsedDigitLines # <<>>
        /\ ret.out.ok => ret.out.id = DigitPrefix(Strip(ParsedDigitLines[1]))
        /\ ~ret.out.ok => ret.out.id = <<>>
        /\ call.stdout_text = <<"1", "0", "3", "4", "5", ".", "h", "e", "a", "d", "n", "o", "d", "e", "\n">>
              => ret.out.ok /\ ret.out.id = <<"1", "0", "3", "4", "5">>

\* an id was returned from a line that follows a non-blank line without id
C11_Witness ==
    /\ ret.fn = "_parse_qsub_job_id"
    /\ ret.out.ok
    /\ ~BeginsWithDigit(ParsedNonBlank[1])

\* s.split(c)
RECURSIVE Split(_, _)
Split(t, c) ==
    IF IndexOf(t, c) = 0 THEN <<t>>
    ELSE <<SubSeq(t, 1, IndexOf(t, c) - 1)>> \o Split(SubSeq(t, IndexOf(t, c) + 1, Len(t)), c)

\* C12: the command line of _submit_job holds no option when depend_afterok
\* is None or empty; otherwise it holds one -W option whose value is
\* depend=afterok: followed by the supplied job ids, each once, in the order
\* supplied, so ["101", "102"] gives 101 before 102.
C12_OneDependencyExpression ==
    ret.fn = "_submit_job" =>
        LET cmd == ret.out.cmd
            ids == call.depend_afterok
        IN /\ ids = <<>> => cmd = <<S_qsub, PathName(call.script_path)>>
           /\ ids # <<>> =>
                 /\ Len(cmd) = 4
                 /\ cmd[1] = S_qsub
                 /\ cmd[2] = S_W
                 /\ cmd[4] = PathName(call.script_path)
                 /\ StartsWith(cmd[3], S_depend \o S_afterok)
                 /\ Split(SubSeq(cmd[3], Len(S_depend \o S_afterok) + 1, Len(cmd[3])), ":")
                       = ids

\* a job was submitted to wait for 101 and 102, in that order
C12_Witness ==
    /\ ret.fn = "_submit_job"
    /\ ret.out.err = "none"
    /\ call.depend_afterok = <<<<"1", "0", "1">>, <<"1", "0", "2">>>>

\* C13: a stage-A submission either is accepted (exit status 0 and a job id
\* of digits returned) or raises: then no id is returned, the run ends there
\* with RuntimeError (nonzero exit status) or ValueError (no id in the reply),
\* no stage-B submission of that item is made and the records hold no record
\* of that item.
C13_StageAFailureStopsItem ==
    \A k \in 1..Len(events) :
        (IsQsub(events[k]) /\ events[k].stage = "orca") =>
            \/ /\ events[k].err = "none"
               /\ events[k].returncode = 0
               /\ events[k].id # <<>>
               /\ \A i \in 1..Len(events[k].id) : events[k].id[i] \in Digit
            \/ /\ events[k].err = (IF events[k].returncode # 0 THEN "RuntimeError"
                                                                ELSE "ValueError")
               /\ events[k].id = <<>>
               /\ pc = "aborted"
               /\ error.type = events[k].err
               /\ k = Len(events)
               /\ \A j \in 1..Len(events) :
                     IsQsub(events[j]) /\ events[j].stage = "corvus"
                        => events[j].item < events[k].item
               /\ Len(records) = events[k].item - 1
               /\ idx = events[k].item

\* the scheduler accepted the second item's stage A with a reply that holds
\* no job id
C13_Witness ==
    /\ pc = "aborted"
    /\ error.type = "ValueError"
    /\ events # <<>>
    /\ IsQsub(events[Len(events)])
    /\ events[Len(events)].stage = "orca"
    /\ events[Len(events)].item = 2
    /\ events[Len(events)].returncode = 0

\* C14: the run_ids of the JobRecords collected so far are pairwise distinct,
\* and a batch in which two discovered inputs derive the same id is rejected:
\* no record is made for it.
C14_RunIdsUnique ==
    /\ \A i, j \in 1..Len(records) : i # j => records[i].run_id # records[j].run_id
    /\ (\E i, j \in 1..Len(xyz_files) :
           i # j /\ _run_id_from_xyz(xyz_files[i], args.H) = _run_id_from_xyz(xyz_files[j], args.H))
          => records = <<>>

\* the part of a file name before its first "." or "_"
IdPrefix(name) ==
    SubSeq(name, 1, CHOOSE n \in 0..Len(name) :
                        /\ \A i \in 1..n : name[i] \notin {".", "_"}
                        /\ n = Len(name) \/ name[n + 1] \in {".", "_"})

\* Path.stem
Stem(name) == SubSeq(name, 1, Len(name) - Len(PathSuffix(name)))

\* two file names that differ at most in their extension
SameButExtension(n, m) == Stem(n) = Stem(m)

\* two file names that differ at most after their first underscore
SameButAfterUnderscore(n, m) ==
    /\ IndexOf(n, "_") > 0
    /\ IndexOf(m, "_") = IndexOf(n, "_")
    /\ SubSeq(n, 1, IndexOf(n, "_")) = SubSeq(m, 1, IndexOf(m, "_"))

\* C15: the id _run_id_from_xyz gives depends on the file name and the flag
\* only: it is the part of the name before its first "." or "_", with
\* "-H-only" appended when the flag is set; every file name that differs from
\* the one given only in its extension or only after its first underscore
\* gets the same id.
C15_RunIdFromNameAndFlag ==
    ret.fn = "_run_id_from_xyz" =>
        LET n == PathName(call.xyz_file)
        IN /\ ret.out = IdPrefix(n) \o (IF call.h_only THEN S_H_only ELSE <<>>)
           /\ call.h_only => ret.out = _run_id_from_xyz(call.xyz_file, FALSE) \o S_H_only
           /\ \A m \in FileNames :
                 (SameButExtension(n, m) \/ SameButAfterUnderscore(n, m))
                    => _run_id_from_xyz(PathJoin(InputDir, m), call.h_only) = ret.out

\* the id of a_.b with the flag set
C15_Witness ==
    /\ ret.fn = "_run_id_from_xyz"
    /\ call.h_only
    /\ PathName(call.xyz_file) = <<"a", "_", ".", "b">>
    /\ ret.out = <<"a">> \o S_H_only

\* the entries of a directory that "*.xyz" names
XyzEntries(entries) == {e \in entries : EndsWith(e.name, S_xyz)}

\* the place of entry e among the entries E in order of name
RankByName(e, E) == 1 + Cardinality({f \in E : StrLess(f.name, e.name)})

FailureCause(i) ==
    IF i.kind = "missing" THEN "missing"
    ELSE IF i.kind = "file"
    THEN (IF Lower(PathSuffix((CHOOSE e \in i.entries : TRUE).name)) # S_xyz
          THEN "extension" ELSE "none")
    ELSE (IF XyzEntries(i.entries) = {} THEN "empty" ELSE "none")

Outcome(found) == <<found.err, found.msg>>

\* C17: discovery fails with FileNotFoundError "Path not found" when the
\* path does not exist, with ValueError "Expected an XYZ file" when a named
\* file has the wrong extension and with ValueError "No .xyz files found in
\* directory" when a directory holds no .xyz entry; no work item is returned
\* then, and the outcomes (exception type and message) of any two inputs that
\* fail for different reasons differ.
C17_DiscoveryErrorsDistinct ==
    ret.fn = "_discover_xyz_files" =>
        LET found == ret.out
            cause == FailureCause(call.path_arg)
        IN /\ cause = "none" <=> found.err = "none"
           /\ cause # "none" => found.files = <<>>
           /\ cause = "missing" =>
                 found.err = "FileNotFoundError" /\ found.msg = "Path not found"
           /\ cause = "extension" =>
                 found.err = "ValueError" /\ found.msg = "Expected an XYZ file"
           /\ cause = "empty" =>
                 found.err = "ValueError" /\ found.msg = "No .xyz files found in directory"
           /\ \A i \in DiscoverInputs :
                 FailureCause(i) # cause => Outcome(_discover_xyz_files(i)) # Outcome(found)

\* a directory that holds only a .txt file was refused
C17_Witness ==
    /\ ret.fn = "_discover_xyz_files"
    /\ call.path_arg = [kind |-> "dir", entries |-> {E_txt}]
    /\ ret.out.err = "ValueError"
    /\ ret.out.files = <<>>

IsRendered == ret.fn \in {"_write_corvus_wrapper_script", "_write_postprocess_script"}

\* C18: a script written by _write_corvus_wrapper_script or
\* _write_postprocess_script ends with exactly one newline, whatever the
\* template text ends with.
C18_ExactlyOneTrailingNewline ==
    (IsRendered /\ ret.out.err = "none") =>
        /\ EndsWith(ret.out.text, <<"\n">>)
        /\ ~EndsWith(ret.out.text, <<"\n", "\n">>)

\* the placeholders each function has a value for, with the values of the call
WrapperMap ==
    (S_RUN_DIR :> PathJoin(OutputRoot, <<"a">>)) @@ (S_RUN_ID :> <<"a">>)
    @@ (S_PREP_CORVUS :> PrepareCorvusPy)
PostprocessMap ==
    LET cmds == PostprocessCmdTexts(ScriptDir, OutputRoot, DownloadDestination,
                                    call.skip[1], call.skip[2], call.skip[3])
    IN (S_BATCH_NAME :> PathName(OutputRoot)) @@ (S_OUTPUT_ROOT :> OutputRoot)
       @@ (S_EXTRACT_CMD :> cmds.extract_cmd)
       @@ (S_PROCESS_FEFF_CMD :> cmds.process_feff_cmd)
       @@ (S_PREPARE_DOWNLOAD_CMD :> cmds.prepare_download_cmd)

\* the pieces of a template with those in the map replaced by their values
Substituted(pieces, map) ==
    Join(<<>>, [i \in 1..Len(pieces) |->
                   IF pieces[i] \in DOMAIN map THEN map[pieces[i]] ELSE pieces[i]])

\* a text without the newlines it ends with
RECURSIVE NoTrailingNewlines(_)
NoTrailingNewlines(t) ==
    IF EndsWith(t, <<"\n">>) THEN NoTrailingNewlines(SubSeq(t, 1, Len(t) - 1)) ELSE t

\* C19: rendering a template that exists raises no error; the text written
\* is the template with each placeholder of the function's map replaced by
\* its value and every other piece, a bracketed token that is not in the map
\* included, left as it is, up to the newlines at its end; for a template
\* with no placeholder of the map it is the template, with a newline added
\* if the template ends with none.
C19_SubstitutionOnly ==
    (IsRendered /\ call.template # None) =>
        LET map == IF ret.fn = "_write_corvus_wrapper_script" THEN WrapperMap
                   ELSE PostprocessMap
        IN /\ ret.out.err = "none"
           /\ EndsWith(ret.out.text, <<"\n">>)
           /\ NoTrailingNewlines(ret.out.text)
                 = NoTrailingNewlines(Substituted(call.pieces, map))
           /\ (\A i \in 1..Len(call.pieces) : call.pieces[i] \notin DOMAIN map) =>
                 ret.out.text \in {call.template, call.template \o <<"\n">>}

\* a template made of a token that is not in the map and plain text, with no
\* newline at its end, has been rendered
C19_Witness ==
    /\ ret.fn = "_write_corvus_wrapper_script"
    /\ call.pieces = <<S_X, <<"a">>, S_BATCH_NAME>>
    /\ ret.out.text = S_X \o <<"a">> \o S_BATCH_NAME \o <<"\n">>

\* C20: a run that has got as far as the fan-in job id is not ended by the
\* write of the state file: the write succeeds also when the file's parent
\* directory does not exist.
C20_StateWriteCreatesParents ==
    postprocess_job_id # None => pc # "aborted"

\* the run was ended by the lookup of a stage-A script
LookupFailed ==
    pc = "aborted" /\ error.msg = "Could not locate generated ORCA qsub script"

\* why the lookup fails in a run directory, "none" when it does not
LookupCause(fs_files, run_dir, run_id) ==
    IF LocateOrcaScript(fs_files, run_dir, run_id).found THEN "none"
    ELSE IF GlobOrcaScripts(fs_files, run_dir) = {} THEN "missing"
    ELSE "ambiguous"

\* C21: the stage-A script chosen for an item is the one with the exact name
\* generated-<id>-orca.script whenever that file exists, whatever else matches
\* the pattern, and otherwise the only file that matches the pattern; the
\* lookup fails when no file matches and when several match and none has the
\* exact name, and the error (type and message) of a lookup that fails for
\* the one reason differs from that of a lookup that fails for the other.
C21_LookupErrorsDistinct ==
    /\ pc = "wrapper" =>
          LET exact == PathJoin(cur.run_dir, S_generated \o cur.run_id \o S_orca_script)
          IN /\ IsFile(files, exact) => cur.orca_script = exact
             /\ ~IsFile(files, exact) => GlobOrcaScripts(files, cur.run_dir) = {cur.orca_script}
    /\ LookupFailed =>
          LET run_dir == error.path
              run_id == PathName(run_dir)
              cause == LookupCause(files, run_dir, run_id)
          IN /\ cause # "none"
             /\ \A k \in 0..MaxStale :
                   LET F == {StaleScript(j) : j \in 1..k}
                       other == LocateOrcaScript(F, PathJoin(OutputRoot, <<"a">>), <<"a">>)
                   IN LookupCause(F, PathJoin(OutputRoot, <<"a">>), <<"a">>) \notin {"none", cause}
                         => <<other.err, other.msg>> # <<error.type, error.msg>>

IsProc(e) == e.op = "proc"

\* the runs of prepare-orca.py, in order
ProcCalls == SelectSeq(events, IsProc)

\* the positions of main() after the preparation step
AfterPrepare ==
    {"locate", "wrapper", "submit", "submit_corvus", "postprocess_write",
     "postprocess_submit", "state", "done"}

\* C22: prepare-orca.py is run at most once, and exactly once, with exit
\* status 0, in a run that has got to the per-item steps; it is run with
\* --dry-run and hands nothing to the scheduler; nothing is written and
\* nothing submitted before it; when it exits nonzero the run ends there with
\* RuntimeError: no wrapper script is written, no job submitted, no record made.
C22_PrepareOnceDryRunFirst ==
    /\ Len(ProcCalls) <= 1
    /\ pc \in AfterPrepare => Len(ProcCalls) = 1 /\ ProcCalls[1].returncode = 0
    /\ \A k \in 1..Len(events) :
          IsProc(events[k]) =>
              /\ events[k].cmd = "prepare-orca.py"
              /\ events[k].dry_run
              /\ events[k].submitted = {}
              /\ \A j \in 1..(k - 1) : events[j].op = "mkdir"
    /\ \A k \in 1..Len(events) :
          events[k].op \in {"write", "qsub", "state"} =>
              \E j \in 1..(k - 1) : IsProc(events[j]) /\ events[j].returncode = 0
    /\ \A k \in 1..Len(events) :
          (IsProc(events[k]) /\ events[k].returncode # 0) =>
              /\ k = Len(events)
              /\ pc = "aborted"
              /\ error.type = "RuntimeError"
              /\ error.msg = "prepare-orca.py failed"
              /\ records = <<>>
              /\ qsub_next = FirstJobId
              /\ \A f \in files : ~EndsWith(f.path, S_corvus_wrapper_script)

\* the preparation step ran in a fresh output root and exited nonzero
C22_Witness ==
    /\ pc = "aborted"
    /\ error.msg = "prepare-orca.py failed"
    /\ Len(ProcCalls) = 1
    /\ ~fs0.root_exists

\* the files written by the per-item steps, and those written for the batch
IsItemWrite(e) == e.op = "write" /\ e.item > 0
IsBatchWrite(e) == (e.op = "write" /\ e.item = 0) \/ e.op = "state"

\* C23: the step of item i writes one file, the stage-B wrapper script in the
\* run directory of item i; no file is written by the steps of two items; the
\* aggregation script and the state file are written once each, when the loop
\* has made a record for every item and after every per-item write.
C23_WriteIsolation ==
    /\ \A k \in 1..Len(events) :
          IsItemWrite(events[k]) =>
              /\ events[k].item \in 1..Len(xyz_files)
              /\ PathParent(events[k].path) = RunDirOf(events[k].item)
              /\ EndsWith(events[k].path, S_corvus_wrapper_script)
    /\ \A j, k \in 1..Len(events) :
          (IsItemWrite(events[j]) /\ IsItemWrite(events[k]) /\ events[j].item # events[k].item)
              => events[j].path # events[k].path
    /\ \A j, k \in 1..Len(events) :
          (IsBatchWrite(events[j]) /\ IsBatchWrite(events[k]) /\ events[j].op = events[k].op)
              => j = k
    /\ \A k \in 1..Len(events) :
          IsBatchWrite(events[k]) =>
              /\ Len(records) = Len(xyz_files)
              /\ idx = Len(xyz_files) + 1
              /\ \A j \in 1..Len(events) : IsItemWrite(events[j]) => j < k

\* the run was ended by a per-item precondition
PreconditionFailed ==
    /\ pc = "aborted"
    /\ error.msg \in {"Expected run directory not found",
                      "Could not locate generated ORCA qsub script"}

\* C24: every effect for an item (its wrapper script, its submissions) is
\* made only when the item's run directory exists and its stage-A script has
\* been located; a run ended because the run directory of item i is absent or
\* its stage-A script cannot be located has written no wrapper script and
\* made no submission for item i, and has no record of it.
C24_PreconditionsBeforeEffects ==
    /\ \A k \in 1..Len(events) :
          (HasItem(events[k]) /\ events[k].item > 0) =>
              LET i == events[k].item
              IN /\ RunDirOf(i) \in dirs
                 /\ LocateOrcaScript(files, RunDirOf(i), PathName(RunDirOf(i))).found
    /\ pc \in {"wrapper", "submit", "submit_corvus"} =>
          /\ cur.run_dir \in dirs
          /\ IsFile(files, cur.orca_script)
    /\ PreconditionFailed =>
          /\ idx \in 1..Len(xyz_files)
          /\ error.type = "FileNotFoundError"
          /\ error.msg = "Expected run directory not found" <=> RunDirOf(idx) \notin dirs
          /\ RunDirOf(idx) \in dirs =>
                ~LocateOrcaScript(files, RunDirOf(idx), PathName(RunDirOf(idx))).found
          /\ \A k \in 1..Len(events) : HasItem(events[k]) => events[k].item # idx
          /\ Len(records) = idx - 1

\* the run directory of the second item was absent after the first item had
\* been submitted
C24_Witness ==
    /\ pc = "aborted"
    /\ error.msg = "Expected run directory not found"
    /\ idx = 2
    /\ Len(QsubCalls) = 2

\* main() has returned or has been ended by an exception
Terminated == pc \in {"done", "aborted"}

\* C25: every run of main() ends, and stays ended, in one of two ways: the
\* state file written (pc "done", no error) or an error raised (pc "aborted",
\* no state file written); in every state the scheduler has been called at
\* most 2N+1 times for N discovered items, and no submission (stage, item) has
\* been made twice.
C25_Termination ==
    /\ <>[]Terminated
    /\ [](/\ Len(QsubCalls) <= 2 * Len(xyz_files) + 1
          /\ \A j, k \in 1..Len(QsubCalls) :
                (QsubCalls[j].stage = QsubCalls[k].stage /\ QsubCalls[j].item = QsubCalls[k].item)
                   => j = k
          /\ Len(persisted) <= 1
          /\ pc = "done" <=> persisted # <<>>
          /\ pc = "done" => error = NoError
          /\ pc = "aborted" <=> error # NoError)

\* a run over two items has ended with the state file written after 2N+1
\* scheduler calls
C25_Witness ==
    /\ pc = "done"
    /\ persisted # <<>>
    /\ Len(xyz_files) = 2
    /\ Len(QsubCalls) = 5

\* the three lines of the script rendered from the template of the slots
\* under the flags f: extract, process-feff, prepare-download
Slots(f) ==
    SplitLines(_write_postprocess_script(SlotTemplate.text, ScriptDir, OutputRoot,
                                         DownloadDestination, f[1], f[2], f[3]).text)

\* the command of slot k when it is not switched off
RealCmd(k) ==
    Slots(<<FALSE, FALSE, FALSE>>)[k]

\* C26: in the script _write_postprocess_script renders, for each of the eight
\* settings of (skip_extract, skip_process_feff, skip_prepare_download), slot
\* k holds "true" exactly when flag k is set and otherwise its command, a
\* python call of the slot's own script; the three commands differ, and slot
\* k is the same under every setting of the other two flags.
C26_SlotsIndependent ==
    (ret.fn = "_write_postprocess_script" /\ call.template = SlotTemplate.text) =>
        LET slots == SplitLines(ret.out.text)
            scripts == <<S_extract_py, S_process_feff_py, S_prepare_download_py>>
        IN /\ ret.out.err = "none"
           /\ Len(slots) = 3
           /\ \A k \in 1..3 :
                 /\ slots[k] = S_true <=> call.skip[k]
                 /\ ~call.skip[k] =>
                       /\ slots[k] = RealCmd(k)
                       /\ StartsWith(slots[k], S_python_q \o PathJoin(ScriptDir, scripts[k]) \o S_q)
                 /\ \A f \in SkipFlags : f[k] = call.skip[k] => Slots(f)[k] = slots[k]
           /\ \A j, k \in 1..3 : j # k => RealCmd(j) # RealCmd(k)

\* the script was rendered with the first and the third slot switched off
C26_Witness ==
    /\ ret.fn = "_write_postprocess_script"
    /\ call.template = SlotTemplate.text
    /\ call.skip = <<TRUE, FALSE, TRUE>>
    /\ SplitLines(ret.out.text)[1] = S_true
    /\ SplitLines(ret.out.text)[2] # S_true
    /\ SplitLines(ret.out.text)[3] = S_true

IsFanIn(e) == IsQsub(e) /\ e.stage = "postprocess"

\* C27: discovery hands main() at least one item, so a run that submits the
\* fan-in job has at least one record, every stage-B id it passes is a
\* non-empty text, and the command line of the fan-in submission holds the
\* option -W depend=afterok: followed by at least one id.
C27_FanInAlwaysConstrained ==
    /\ pc \notin {"validate", "check_executables", "check_scripts", "mkdir", "discover",
                  "aborted"} => xyz_files # <<>>
    /\ \A k \in 1..Len(events) :
          IsFanIn(events[k]) =>
              /\ ~args.no_submit
              /\ xyz_files # <<>>
              /\ records # <<>>
              /\ \A i \in 1..Len(records) : records[i].corvus_job_id # <<>>
              /\ Len(events[k].cmd) = 4
              /\ events[k].cmd[2] = S_W
              /\ StartsWith(events[k].cmd[3], S_depend \o S_afterok)
              /\ Len(events[k].cmd[3]) > Len(S_depend \o S_afterok)
              /\ events[k].cmd # <<S_qsub, PathName(postprocess_script)>>

\* the fan-in job of a batch of one named file has been submitted
C27_Witness ==
    /\ input.kind = "file"
    /\ Len(records) = 1
    /\ \E k \in 1..Len(events) : IsFanIn(events[k]) /\ events[k].err = "none"

\* a non-empty text of decimal digits
IsDigits(s) == s # <<>> /\ \A i \in 1..Len(s) : s[i] \in Digit

\* the job ids of a list of records and a fan-in id, None left out
IdsOf(runs, fanin) ==
    ({runs[i].orca_job_id : i \in 1..Len(runs)}
     \cup {runs[i].corvus_job_id : i \in 1..Len(runs)}
     \cup {fanin}) \ {None}

\* the job ids main() holds: in its records, of the item in hand, of the fan-in
RecordedIds == IdsOf(records, postprocess_job_id) \cup ({cur.orca_job_id} \ {None})

\* the ids the scheduler's accepted replies were parsed to
ReturnedIds == {events[k].id : k \in {j \in 1..Len(events) : IsAccepted(events[j])}}

\* C28: in a plan-only run every job id held so far is "NO_SUBMIT"; in a
\* submit run every job id held so far is a non-empty text of digits that
\* _parse_qsub_job_id returned for a reply of the scheduler; the ids of a
\* persisted state are all "NO_SUBMIT" or all digits, its fan-in id is set and
\* each of its records has both its ids set.
C28_JobIdsNotMixed ==
    /\ args.no_submit => RecordedIds \subseteq {NO_SUBMIT}
    /\ ~args.no_submit =>
          /\ \A id \in RecordedIds : IsDigits(id)
          /\ RecordedIds \subseteq ReturnedIds
    /\ \A r \in 1..Len(records) :
          records[r].orca_job_id \notin {None, <<>>} /\ records[r].corvus_job_id \notin {None, <<>>}
    /\ \A p \in 1..Len(persisted) :
          LET s == persisted[p].state
          IN /\ s.postprocess_job_id \notin {None, <<>>}
             /\ \A r \in 1..Len(s.runs) :
                   /\ s.runs[r].orca_job_id \notin {None, <<>>}
                   /\ s.runs[r].corvus_job_id \notin {None, <<>>}
             /\ \/ IdsOf(s.runs, s.postprocess_job_id) = {NO_SUBMIT}
                \/ \A id \in IdsOf(s.runs, s.postprocess_job_id) : IsDigits(id)

\* the state of a submit run over two items has been persisted, with five
\* different job ids
C28_Witness ==
    /\ ~args.no_submit
    /\ persisted # <<>>
    /\ Cardinality(IdsOf(persisted[1].state.runs, persisted[1].state.postprocess_job_id)) = 5

\* the preparation step has run and generated a stage-A script for every
\* input file it processed
PrepareGenerated ==
    /\ prep_result.ran
    /\ prep_result.returncode = 0
    /\ PrepTemplate(args.H) \in installed
    /\ "orca-qsub.script" \in installed

\* C29: the run directory and the stage-A script the orchestrator expects for
\* an item are those prepare-orca.py makes for the input file the item comes
\* from: after a preparation step that generated the scripts, the run
\* directory of every discovered item exists and holds the script with the
\* exact expected name generated-<id>-orca.script, and every item that gets
\* as far as its wrapper uses that script.
C29_NamingAgreement ==
    PrepareGenerated =>
        /\ \A e \in FoundEntries :
              PrepOutputBase(e.name, args.H)
                 = _run_id_from_xyz(PathJoin(InputDir, e.resolved), args.H)
        /\ \A i \in 1..Len(xyz_files) :
              LET run_id == _run_id_from_xyz(xyz_files[i], args.H)
              IN /\ RunDirOf(i) \in dirs
                 /\ IsFile(files, PathJoin(RunDirOf(i), S_generated \o run_id \o S_orca_script))
        /\ pc = "wrapper" =>
              cur.orca_script = PathJoin(cur.run_dir, S_generated \o cur.run_id \o S_orca_script)
        /\ ~(pc = "aborted" /\ error.msg \in {"Expected run directory not found",
                                               "Could not locate generated ORCA qsub script"})

\* C30: the pair of counts of a run that has passed the check of main(),
\* cys + his = 4, and has got to the preparation step is in the
\* charge/multiplicity table of prepare-orca.py, and the run is not ended by
\* the preparation step exiting nonzero once the output root has been created.
C30_CountsValidationAgrees ==
    (CountsValid(args.cys, args.his) /\ prep_result.ran) =>
        /\ get_charge_multiplicity(args.cys, args.his).found
        /\ ~(pc = "aborted" /\ error.msg = "prepare-orca.py failed" /\ root_exists)

====
